---- MODULE Spec2Model ----
(***************************************************************************)
(* The interface layer of NewICD3                                          *)
(* (src/src/interface_layer/driver_interface.c): the device registry with  *)
(* its PROT_NONE reservations, the process-wide lifecycle state, the       *)
(* register access API and the model transport with its in-process         *)
(* fallback responder.                                                     *)
(*                                                                         *)
(* uint32_t values are pairs <<high 16 bits, low 16 bits>>, so that the    *)
(* arithmetic of the code keeps its 32-bit width (TLC integers are 32-bit  *)
(* signed).  The data[] array of a frame is the sequence of its bytes up   *)
(* to the last non-zero one; the bytes after it are zero.                  *)
(***************************************************************************)
EXTENDS Integers, Sequences, FiniteSets, TLC

VARIABLES
    devices,        \* devices[0 .. device_count-1], as a sequence of entries
    mmap_count,     \* number of reservations mmap has handed out so far
    munmaps,        \* munmaps[h]: number of munmap calls on reservation h
    sig_handlers,   \* which of SIGSEGV / SIGUSR1 have a handler installed
    pid_file,       \* DRIVER_PID_FILE exists
    socket_path,    \* DRIVER_SOCKET_PATH exists
    server_socket,  \* static int server_socket
    open_fds,       \* descriptors the process holds open (beyond 0, 1, 2)
    pending,        \* pending_device_interrupt, pending_interrupt_id, interrupt_pending
    call,           \* the last API call: its name, arguments and return value
    xfer,           \* the last exchange with a model that call made, if any
    trap,           \* the last access fault the trap engine handled
    interrupt_handlers, \* static interrupt_handler_t interrupt_handlers[MAX_IRQS]
    sidecar,        \* the contents of /tmp/icd3_interrupt_<pid>, <<>> if absent
    sigusr1,        \* the SIGUSR1 a model sent and the kernel has yet to deliver
    wire,           \* a WRITE on its way: where the driver and the model are
    dispatch,       \* the last run of interrupt handlers, by signal or by call
    uart_initialized \* static int uart_initialized of the UART driver

registry == <<devices, mmap_count, munmaps>>
lifecycle == <<sig_handlers, pid_file, socket_path, server_socket, open_fds, pending>>
interrupts == <<interrupt_handlers, sidecar, sigusr1, wire, dispatch>>
driver == <<uart_initialized>>
vars == <<devices, mmap_count, munmaps, sig_handlers, pid_file, socket_path,
          server_socket, open_fds, pending, call, xfer, trap,
          interrupt_handlers, sidecar, sigusr1, wire, dispatch,
          uart_initialized>>

----------------------------------------------------------------------------
(* Program constants *)

MAX_DEVICES == 16

MAX_IRQS == 16

CMD_READ == 1

CMD_WRITE == 2

RESULT_SUCCESS == 0

\* sizeof(protocol_message_t), the frame that send and recv transfer whole
FRAME_SIZE == 92

----------------------------------------------------------------------------
(* Bounds of the model *)

\* successful mmap calls explored in Spec
MaxMaps == 3

\* successful mmap calls explored in SpecAccess
MaxMapsAccess == 2

\* successful mmap calls explored in SpecFull (more than MAX_DEVICES)
MaxMapsFull == 17

\* descriptors the process may hold open before interface_layer_init is
\* called once more
MaxFds == 1

\* successful mmap calls explored in SpecTrap
MaxMapsTrap == 2

\* iterations of a store loop of the trap handler that are followed
MaxStores == 8

----------------------------------------------------------------------------
(* uint32_t arithmetic *)

W16 == 256 * 256

U32(hi, lo) == <<hi, lo>>

ZERO32 == U32(0, 0)

\* a + b in uint32_t: the carry out of bit 31 is lost
Add32(a, b) ==
    LET lo == a[2] + b[2]
    IN  U32((a[1] + b[1] + (lo \div W16)) % W16, lo % W16)

\* a < b on uint32_t
Lt32(a, b) == a[1] < b[1] \/ (a[1] = b[1] /\ a[2] < b[2])

\* a >= b on uint32_t
Ge32(a, b) == ~Lt32(a, b)

\* the four bytes of a uint32_t in memory (little-endian)
Bytes32(v) == <<v[2] % 256, v[2] \div 256, v[1] % 256, v[1] \div 256>>

\* data[i - 1] of a data[] array
Byte(data, i) == IF i <= Len(data) THEN data[i] ELSE 0

\* a data[] array without its trailing zero bytes
RECURSIVE Trim(_)
Trim(data) ==
    IF data # <<>> /\ data[Len(data)] = 0
    THEN Trim(SubSeq(data, 1, Len(data) - 1))
    ELSE data

\* *(uint32_t*)data
Load32(data) ==
    U32(Byte(data, 3) + 256 * Byte(data, 4), Byte(data, 1) + 256 * Byte(data, 2))

\* memcpy(data, bytes, n)
Memcpy(data, bytes, n) ==
    Trim([i \in 1..(IF n > Len(data) THEN n ELSE Len(data)) |->
             IF i <= n THEN bytes[i] ELSE data[i]])

----------------------------------------------------------------------------
(* Descriptors *)

\* close(fd): the descriptor leaves the table (EBADF leaves it as it is)
Close(fds, fd) == fds \ {fd}

\* socket(): the lowest descriptor not in use
LowestFree(fds) == CHOOSE n \in 3..(3 + Cardinality(fds)) :
                       n \notin fds /\ \A m \in 3..(n - 1) : m \in fds

----------------------------------------------------------------------------
(* Model transport *)

\* data[] of a zeroed frame
ZeroData == <<>>

\* protocol_message_t m = {0}
ZeroFrame ==
    [device_id |-> 0, command |-> 0, address |-> ZERO32, length |-> 0,
     data |-> ZeroData, result |-> 0]

\* a fallback without the STATUS register
SimulatedData_NoStatus(address) == U32(\hDEAD, \hBEEF)

\* what the fallback answers to a READ
SimulatedData(address) ==
    IF address[2] % 256 = 4 THEN U32(0, 1) ELSE U32(\hDEAD, \hBEEF)

\* a fallback that echoes a READ as it echoes a WRITE
Fallback_EchoOnly(message) == [message EXCEPT !.result = RESULT_SUCCESS]

\* the simulation_fallback block, for a non-NULL response
Fallback(message) ==
    LET echo == [message EXCEPT !.result = RESULT_SUCCESS]
    IN  IF message.command = CMD_READ
        THEN [echo EXCEPT !.data =
                  Memcpy(@, Bytes32(SimulatedData(message.address)), 4)]
        ELSE echo

\* the payload a model puts into data[]: the four bytes of value, and
\* the next four when it answers with a 64-bit register
ReplyData(reply) ==
    IF "high" \in DOMAIN reply
    THEN Bytes32(reply.value) \o Bytes32(reply.high)
    ELSE Bytes32(reply.value)

\* the frame a reachable model sends back: the request with its own data
\* and result
ModelReply(message, reply) ==
    [message EXCEPT !.data = Memcpy(@, ReplyData(reply), Len(ReplyData(reply))),
                    !.result = reply.result]

\* What the operating system and the peer do during one exchange:
\* whether socket() and connect() succeed, what send() and recv() return,
\* and what a reachable model answers.
SocketFails ==
    [socket_ok |-> FALSE, connect_ok |-> FALSE, sent |-> -1, received |-> -1,
     reply |-> [value |-> ZERO32, result |-> 0]]

ModelAnswers ==
    {[value |-> U32(\h1234, \h5678), result |-> RESULT_SUCCESS],
     [value |-> ZERO32, result |-> 1],
     [value |-> U32(\h0BAD, \hF00D), result |-> 1]}

Envs ==
    {SocketFails}
    \cup {[SocketFails EXCEPT !.socket_ok = TRUE]}
    \cup {[SocketFails EXCEPT !.socket_ok = TRUE, !.connect_ok = TRUE]}
    \cup {[SocketFails EXCEPT !.socket_ok = TRUE, !.connect_ok = TRUE,
                              !.sent = FRAME_SIZE, !.received = n] :
             n \in {40}}
    \cup {[socket_ok |-> TRUE, connect_ok |-> TRUE, sent |-> FRAME_SIZE,
           received |-> FRAME_SIZE, reply |-> a] : a \in ModelAnswers}

\* a short recv taken for a whole frame
TransportPath_IgnoreShortRecv(env, has_response) ==
    IF ~env.socket_ok THEN "no_socket"
    ELSE IF ~env.connect_ok THEN "fallback"
    ELSE IF env.sent # FRAME_SIZE THEN "fallback"
    ELSE "model"

\* the way send_message_to_model leaves: "no_socket" (return -1),
\* "fallback" (goto simulation_fallback) or "model" (the peer's frame).
\* has_response is (response != NULL).
TransportPath(env, has_response) ==
    IF ~env.socket_ok THEN "no_socket"
    ELSE IF ~env.connect_ok THEN "fallback"
    ELSE IF env.sent # FRAME_SIZE THEN "fallback"
    ELSE IF has_response /\ env.received # FRAME_SIZE THEN "fallback"
    ELSE "model"

\* the socket left open on the path that got the frame of the model
SendMessageToModel_LeakOnSuccess(message, has_response, response, fds, env) ==
    LET fd == LowestFree(fds)
        opened == fds \cup {fd}
        path == TransportPath(env, has_response)
    IN  IF path = "no_socket"
        THEN [ret |-> -1, response |-> response, path |-> path, fds |-> fds]
        ELSE IF path = "fallback"
        THEN [ret |-> 0,
              response |-> IF has_response THEN Fallback(message) ELSE response,
              path |-> path,
              fds |-> Close(opened, fd)]
        ELSE [ret |-> 0,
              response |-> IF has_response THEN ModelReply(message, env.reply)
                           ELSE response,
              path |-> path,
              fds |-> opened]

\* send_message_to_model(message, response): the return value, the
\* caller's response buffer afterwards, the path taken and the descriptor
\* table afterwards.  Every path that opened the socket closes it.
SendMessageToModel(message, has_response, response, fds, env) ==
    LET fd == LowestFree(fds)
        opened == fds \cup {fd}
        path == TransportPath(env, has_response)
    IN  IF path = "no_socket"
        THEN [ret |-> -1, response |-> response, path |-> path, fds |-> fds]
        ELSE IF path = "fallback"
        THEN [ret |-> 0,
              response |-> IF has_response THEN Fallback(message) ELSE response,
              path |-> path,
              fds |-> Close(opened, fd)]
        ELSE [ret |-> 0,
              response |-> IF has_response THEN ModelReply(message, env.reply)
                           ELSE response,
              path |-> path,
              fds |-> Close(opened, fd)]

\* the record kept of an exchange: the request, what the environment did,
\* the result, and whether the socket it opened is still open
Exchange(message, has_response, env, fds, r) ==
    [request |-> message, has_response |-> has_response, env |-> env,
     ret |-> r.ret, response |-> r.response, path |-> r.path,
     sock_open |-> r.fds # fds]

NoExchange ==
    [request |-> ZeroFrame, has_response |-> FALSE, env |-> SocketFails,
     ret |-> 0, response |-> ZeroFrame, path |-> "none", sock_open |-> FALSE]


\* a direct call, as in tests/test_interface_layer.c:125-144
send_message_to_model(message, has_response, env) ==
    LET r == SendMessageToModel(message, has_response, ZeroFrame, open_fds, env)
    IN  /\ xfer' = Exchange(message, has_response, env, open_fds, r)
        /\ open_fds' = r.fds
        /\ call' = [op |-> "send_message_to_model", args |-> <<>>, ret |-> r.ret]
        /\ UNCHANGED <<devices, mmap_count, munmaps, sig_handlers, pid_file,
                       socket_path, server_socket, pending>>

----------------------------------------------------------------------------
(* The device registry *)

NULL == 0

Entry(id, base, size, mem) ==
    [device_id |-> id, base_address |-> base, size |-> size,
     mapped_memory |-> mem, socket_fd |-> -1]

\* the address test of segv_handler, read_register and write_register
AddressMatches(e, a) ==
    Ge32(a, e.base_address) /\ Lt32(a, Add32(e.base_address, e.size))

\* indices of the entries the linear scan matches, in scan order
RECURSIVE MatchingFrom(_, _, _)
MatchingFrom(devs, a, i) ==
    IF i > Len(devs) THEN <<>>
    ELSE IF AddressMatches(devs[i], a)
         THEN <<i>> \o MatchingFrom(devs, a, i + 1)
         ELSE MatchingFrom(devs, a, i + 1)

Matching(devs, a) == MatchingFrom(devs, a, 1)

\* the entry the scan selects: the first match, 0 for none
Lookup(devs, a) ==
    LET m == Matching(devs, a) IN IF m = <<>> THEN 0 ELSE m[1]

\* first index whose device_id equals id, 0 for none
RECURSIVE FindIdFrom(_, _, _)
FindIdFrom(devs, id, i) ==
    IF i > Len(devs) THEN 0
    ELSE IF devs[i].device_id = id THEN i
    ELSE FindIdFrom(devs, id, i + 1)

\* a scan that ends on the last entry when no id matches
FindId_LastOnMiss(devs, id) ==
    IF FindIdFrom(devs, id, 1) # 0 THEN FindIdFrom(devs, id, 1) ELSE Len(devs)

FindId(devs, id) == FindIdFrom(devs, id, 1)

\* munmap(e.mapped_memory, e.size) if (e.mapped_memory)
Munmap(ledger, e) ==
    IF e.mapped_memory # NULL
    THEN [ledger EXCEPT ![e.mapped_memory] = @ + 1]
    ELSE ledger

RECURSIVE MunmapAll(_, _, _)
MunmapAll(ledger, devs, i) ==
    IF i > Len(devs) THEN ledger
    ELSE MunmapAll(Munmap(ledger, devs[i]), devs, i + 1)

\* the last entry moved without device_count--
RemoveAt_NoDecrement(devs, i) ==
    IF i < Len(devs) THEN [devs EXCEPT ![i] = devs[Len(devs)]] ELSE devs

\* devices[i] = devices[device_count - 1]; device_count--
RemoveAt(devs, i) ==
    LET n == Len(devs)
        moved == IF i < n THEN [devs EXCEPT ![i] = devs[n]] ELSE devs
    IN  SubSeq(moved, 1, n - 1)

\* mmap(NULL, size, PROT_NONE, ...): fails for a zero length (EINVAL) or
\* when the kernel refuses (ok = FALSE)
MmapSucceeds(size, ok) == size # ZERO32 /\ ok

\* the bound tested one entry too late
RegistryFull_OffByOne(devs) == Len(devs) > MAX_DEVICES

\* if (device_count >= MAX_DEVICES)
RegistryFull(devs) == Len(devs) >= MAX_DEVICES

register_device(device_id, base_address, size, mmap_ok) ==
    /\ IF RegistryFull(devices)
       THEN /\ UNCHANGED registry
            /\ call' = [op |-> "register_device",
                        args |-> <<device_id, base_address, size>>, ret |-> -1]
       ELSE IF ~MmapSucceeds(size, mmap_ok)
       THEN /\ UNCHANGED registry
            /\ call' = [op |-> "register_device",
                        args |-> <<device_id, base_address, size>>, ret |-> -1]
       ELSE /\ mmap_count' = mmap_count + 1
            /\ munmaps' = [h \in 1..(mmap_count + 1) |->
                              IF h <= mmap_count THEN munmaps[h] ELSE 0]
            /\ devices' = Append(devices,
                                 Entry(device_id, base_address, size, mmap_count + 1))
            /\ call' = [op |-> "register_device",
                        args |-> <<device_id, base_address, size>>, ret |-> 0]
    /\ xfer' = NoExchange
    /\ UNCHANGED lifecycle

unregister_device(device_id) ==
    LET i == FindId(devices, device_id)
    IN  /\ IF i # 0
           THEN /\ munmaps' = Munmap(munmaps, devices[i])
                /\ devices' = RemoveAt(devices, i)
                /\ call' = [op |-> "unregister_device",
                            args |-> <<device_id>>, ret |-> 0]
           ELSE /\ UNCHANGED <<devices, munmaps>>
                /\ call' = [op |-> "unregister_device",
                            args |-> <<device_id>>, ret |-> -1]
        /\ xfer' = NoExchange
        /\ UNCHANGED <<mmap_count, lifecycle>>

----------------------------------------------------------------------------
(* Lifecycle *)

InitOutcomes ==
    {"sigsegv_fails", "sigusr1_fails", "socket_fails", "bind_fails",
     "listen_fails", "ok"}

interface_layer_init(outcome, pid_ok) ==
    LET fd == LowestFree(open_fds)
        past_signals == outcome \notin {"sigsegv_fails", "sigusr1_fails"}
        has_socket == past_signals /\ outcome # "socket_fails"
    IN  /\ sig_handlers' =
               [segv |-> sig_handlers.segv \/ outcome # "sigsegv_fails",
                usr1 |-> sig_handlers.usr1 \/ past_signals]
        /\ pending' = IF past_signals
                      THEN [device |-> 0, id |-> 0, flag |-> 0]
                      ELSE pending
        /\ pid_file' = (pid_file \/ (past_signals /\ pid_ok))
        /\ server_socket' = IF ~past_signals THEN server_socket
                            ELSE IF has_socket THEN fd ELSE -1
        \* unlink(DRIVER_SOCKET_PATH), then bind creates it again
        /\ socket_path' = IF ~has_socket THEN socket_path
                          ELSE outcome # "bind_fails"
        \* bind or listen failed: close(server_socket)
        /\ open_fds' = IF outcome = "ok" THEN open_fds \cup {fd} ELSE open_fds
        /\ call' = [op |-> "interface_layer_init", args |-> <<>>,
                    ret |-> IF outcome = "ok" THEN 0 ELSE -1]
        /\ xfer' = NoExchange
        /\ UNCHANGED registry

interface_layer_deinit ==
    /\ munmaps' = MunmapAll(munmaps, devices, 1)
    /\ open_fds' = IF server_socket # -1
                   THEN Close(open_fds, server_socket)
                   ELSE open_fds
    /\ socket_path' = IF server_socket # -1 THEN FALSE ELSE socket_path
    /\ pid_file' = FALSE
    /\ devices' = <<>>
    /\ call' = [op |-> "interface_layer_deinit", args |-> <<>>, ret |-> 0]
    /\ xfer' = NoExchange
    /\ UNCHANGED <<mmap_count, sig_handlers, server_socket, pending>>

----------------------------------------------------------------------------
(* Register access API *)

ReadMessage(e, address, size) ==
    [ZeroFrame EXCEPT !.device_id = e.device_id, !.command = CMD_READ,
                      !.address = address, !.length = size]

WriteMessage(e, address, data, size) ==
    [ZeroFrame EXCEPT !.device_id = e.device_id, !.command = CMD_WRITE,
                      !.address = address, !.length = size,
                      !.data = Memcpy(@, Bytes32(data), size)]

\* The loop of read_register from entry i on.  A failed exchange does not
\* end the loop: the scan goes on to the next matching entry.  The first
\* nfail exchanges find socket() failing, the following ones meet env.
RECURSIVE ReadScan(_, _, _, _, _, _, _, _)
ReadScan(devs, i, address, size, nfail, env, fds, last) ==
    IF i > Len(devs)
    THEN [ret |-> ZERO32, xfer |-> last, fds |-> fds]
    ELSE IF AddressMatches(devs[i], address)
    THEN LET message == ReadMessage(devs[i], address, size)
             e == IF nfail > 0 THEN SocketFails ELSE env
             r == SendMessageToModel(message, TRUE, ZeroFrame, fds, e)
         IN  IF r.ret = 0
             THEN [ret |-> Load32(r.response.data),
                   xfer |-> Exchange(message, TRUE, e, fds, r), fds |-> r.fds]
             ELSE ReadScan(devs, i + 1, address, size, nfail - 1, env, r.fds,
                           Exchange(message, TRUE, e, fds, r))
    ELSE ReadScan(devs, i + 1, address, size, nfail, env, fds, last)

\* History kept with a read_register call: the write_register call right
\* before it, when that one returned 0 and was to the same address.
WrittenBefore(address) ==
    IF call.op = "write_register" /\ call.ret = 0 /\ call.args[1] = address
    THEN [valid |-> TRUE, data |-> call.args[2], size |-> call.args[3],
          path |-> xfer.path]
    ELSE [valid |-> FALSE, data |-> ZERO32, size |-> 0, path |-> "none"]

read_register(address, size, nfail, env) ==
    LET s == ReadScan(devices, 1, address, size, nfail, env, open_fds, NoExchange)
    IN  /\ xfer' = s.xfer
        /\ open_fds' = s.fds
        /\ call' = [op |-> "read_register", args |-> <<address, size>>,
                    ret |-> s.ret, written |-> WrittenBefore(address)]
        /\ UNCHANGED <<devices, mmap_count, munmaps, sig_handlers, pid_file,
                       socket_path, server_socket, pending>>

write_register(address, data, size, env) ==
    LET i == Lookup(devices, address)
    IN  /\ IF i # 0
           THEN LET message == WriteMessage(devices[i], address, data, size)
                    r == SendMessageToModel(message, TRUE, ZeroFrame, open_fds, env)
                IN  /\ xfer' = Exchange(message, TRUE, env, open_fds, r)
                    /\ open_fds' = r.fds
                    /\ call' = [op |-> "write_register",
                                args |-> <<address, data, size>>, ret |-> r.ret]
           ELSE /\ xfer' = NoExchange
                /\ call' = [op |-> "write_register",
                            args |-> <<address, data, size>>, ret |-> -1]
                /\ UNCHANGED open_fds
        /\ UNCHANGED <<devices, mmap_count, munmaps, sig_handlers, pid_file,
                       socket_path, server_socket, pending>>

----------------------------------------------------------------------------
(* uint64_t arithmetic: four 16-bit limbs, most significant first *)

U64(w3, w2, w1, w0) == <<w3, w2, w1, w0>>

ZERO64 == U64(0, 0, 0, 0)

\* (uint64_t)v of a uint32_t v
Widen(v) == U64(0, 0, v[1], v[2])

\* (uint32_t)v of a uint64_t v
Trunc32(v) == U32(v[3], v[4])

\* the uint64_t of a number below 2^16
Small64(n) == U64(0, 0, 0, n)

\* a + b in uint64_t: the carry out of bit 63 is lost
Add64(a, b) ==
    LET s0 == a[4] + b[4]
        s1 == a[3] + b[3] + (s0 \div W16)
        s2 == a[2] + b[2] + (s1 \div W16)
        s3 == a[1] + b[1] + (s2 \div W16)
    IN  U64(s3 % W16, s2 % W16, s1 % W16, s0 % W16)

\* a - b in uint64_t
Sub64(a, b) ==
    Add64(Add64(a, U64(W16 - 1 - b[1], W16 - 1 - b[2],
                       W16 - 1 - b[3], W16 - 1 - b[4])),
          Small64(1))

\* a * k in uint64_t, for the element sizes k = 1, 2, 4
MulSmall64(a, k) ==
    LET p0 == a[4] * k
        p1 == a[3] * k + (p0 \div W16)
        p2 == a[2] * k + (p1 \div W16)
        p3 == a[1] * k + (p2 \div W16)
    IN  U64(p3 % W16, p2 % W16, p1 % W16, p0 % W16)

\* a / k in uint64_t, for the element sizes k = 1, 2, 4
DivSmall64(a, k) ==
    LET q3 == a[1] \div k
        r2 == (a[1] % k) * W16 + a[2]
        r1 == (r2 % k) * W16 + a[3]
        r0 == (r1 % k) * W16 + a[4]
    IN  U64(q3, r2 \div k, r1 \div k, r0 \div k)

\* a < b on uint64_t
Lt64(a, b) ==
    \E i \in 1..4 : a[i] < b[i] /\ \A j \in 1..(i - 1) : a[j] = b[j]

\* a >= b on uint64_t
Ge64(a, b) == ~Lt64(a, b)

\* v & 0xFF, v & 0xFFFF, v & 0xFFFFFFFF
Mask64(v, size) ==
    IF size = 1 THEN U64(0, 0, 0, v[4] % 256)
    ELSE IF size = 2 THEN U64(0, 0, 0, v[4])
    ELSE U64(0, 0, v[3], v[4])

\* the eight bytes of a uint64_t in memory (little-endian)
Bytes64(v) ==
    <<v[4] % 256, v[4] \div 256, v[3] % 256, v[3] \div 256,
      v[2] % 256, v[2] \div 256, v[1] % 256, v[1] \div 256>>

\* uint64_t read_data = 0; memcpy(&read_data, data, n)
Load64(data, n) ==
    LET b(i) == IF i <= n THEN Byte(data, i) ELSE 0
    IN  U64(b(7) + 256 * b(8), b(5) + 256 * b(6),
            b(3) + 256 * b(4), b(1) + 256 * b(2))

----------------------------------------------------------------------------
(* Instruction decoding *)

\* the general registers of uc_mcontext.gregs that ModR/M can name, in
\* the order of the reg field, and the program counter
RegOfField ==
    <<"RAX", "RCX", "RDX", "RBX", "RSP", "RBP", "RSI", "RDI",
      "R8", "R9", "R10", "R11", "R12", "R13", "R14", "R15">>

Regs == {RegOfField[i] : i \in 1..16} \cup {"RIP"}

LegacyPrefixes ==
    {\hF0, \hF2, \hF3, \h2E, \h36, \h3E, \h26, \h64, \h65, \h66, \h67}

\* while (*inst_ptr is in set) inst_ptr++ : the index of the first byte
\* from i on that is not in set
RECURSIVE SkipWhile(_, _, _)
SkipWhile(instruction, i, set) ==
    IF Byte(instruction, i) \in set
    THEN SkipWhile(instruction, i + 1, set)
    ELSE i

IsRex(b) == b >= \h40 /\ b <= \h4F

\* if (*inst_ptr >= 0x40 && *inst_ptr <= 0x4F) inst_ptr++
SkipRex(instruction, p) == IF IsRex(Byte(instruction, p)) THEN p + 1 ELSE p

\* the bytes an instruction has after its opcode: ModR/M, SIB,
\* displacement and immediate, for the opcodes taken to have a ModR/M byte
OperandLength(opcode, mod, rm, has_66_prefix) ==
    IF opcode \in {\h88, \h89, \h8A, \h8B, \hC6, \hC7, \hB6, \hB7, \hBE, \hBF}
    THEN 1
         + (IF mod # 3 /\ rm = 4 THEN 1 ELSE 0)
         + (IF mod = 1 THEN 1
            ELSE IF mod = 2 \/ (mod = 0 /\ rm = 5) THEN 4
            ELSE 0)
         + (IF opcode = \hC6 THEN 1
            ELSE IF opcode = \hC7 THEN (IF has_66_prefix THEN 2 ELSE 4)
            ELSE 0)
    ELSE 0

\* get_instruction_length from the ModR/M position m on; the search for
\* a 66 prefix covers the bytes before the ModR/M byte, and that byte too
\* when a SIB byte follows it
LengthAtModrm(instruction, opcode, m, modrm) ==
    (m - 1)
    + OperandLength(opcode, (modrm \div 64) % 4, modrm % 8,
                    \E k \in 1..(IF (modrm \div 64) % 4 # 3 /\ modrm % 8 = 4
                                 THEN m ELSE m - 1) :
                        Byte(instruction, k) = \h66)

\* get_instruction_length from the first opcode byte, at index o, on
LengthAtOpcode(instruction, o, op1, op2) ==
    IF op1 # \h0F
    THEN LengthAtModrm(instruction, op1, o + 1, Byte(instruction, o + 1))
    ELSE IF op2 \in {\h38, \h3A}
    THEN LengthAtModrm(instruction, op2, o + 3, Byte(instruction, o + 3))
    ELSE LengthAtModrm(instruction, op2, o + 2, Byte(instruction, o + 2))

LengthAfterPrefixes(instruction, o) ==
    LengthAtOpcode(instruction, o, Byte(instruction, o), Byte(instruction, o + 1))

get_instruction_length(instruction) ==
    LengthAfterPrefixes(instruction,
                        SkipRex(instruction,
                                SkipWhile(instruction, 1, LegacyPrefixes)))

\* the register the reg field of the ModR/M byte at index m names, with
\* the REX.R bit of the REX prefix before the opcode
RegisterAt(instruction, p, m) ==
    RegOfField[((Byte(instruction, m) \div 8) % 8)
               + (IF IsRex(Byte(instruction, p))
                     /\ (Byte(instruction, p) \div 4) % 2 = 1
                  THEN 8 ELSE 0)
               + 1]

DestinationAfterPrefixes(instruction, p, is_two_byte_opcode) ==
    RegisterAt(instruction, p,
               SkipRex(instruction, p) + 1
                   + (IF is_two_byte_opcode THEN 1 ELSE 0))

get_destination_register_from_modrm(instruction, is_two_byte_opcode) ==
    DestinationAfterPrefixes(instruction,
                             SkipWhile(instruction, 1, LegacyPrefixes),
                             is_two_byte_opcode)

\* the REP STOS test of segv_handler: F3, an optional 66, then AA or AB
StosAt(has_66, op) ==
    [is_rep_stos |-> op \in {\hAA, \hAB},
     stos_size |-> IF op = \hAA THEN 1 ELSE IF has_66 THEN 2 ELSE 4]

RepStos(instruction) ==
    IF Byte(instruction, 1) # \hF3
    THEN [is_rep_stos |-> FALSE, stos_size |-> 1]
    ELSE IF Byte(instruction, 2) = \h66
    THEN StosAt(TRUE, Byte(instruction, 3))
    ELSE StosAt(FALSE, Byte(instruction, 2))

\* what the opcode dispatch of segv_handler settles for a read and for a
\* write; known: the opcode has a case of its own in the switch
ReadAccess(n, is_two_byte_opcode, known) ==
    [is_write |-> FALSE, access_size |-> n, write_data |-> ZERO64,
     is_two_byte_opcode |-> is_two_byte_opcode, known |-> known]

WriteAccess(n, data) ==
    [is_write |-> TRUE, access_size |-> n, write_data |-> data,
     is_two_byte_opcode |-> FALSE, known |-> TRUE]

\* the last n bytes of the instruction, as the immediate of a store
Immediate(instruction, inst_length, n) ==
    Load64([i \in 1..n |-> Byte(instruction, inst_length - n + i)], n)

\* the opcode dispatch of segv_handler.  An opcode outside the switch is
\* taken for a 32-bit read; the data of a register store is taken from
\* RAX.
Dispatch(instruction, gregs, inst_length, wide, first_opcode, second_opcode) ==
    IF first_opcode = \h0F
    THEN IF second_opcode \in {\hB6, \hBE} THEN ReadAccess(1, TRUE, TRUE)
         ELSE IF second_opcode \in {\hB7, \hBF} THEN ReadAccess(2, TRUE, TRUE)
         ELSE ReadAccess(4, TRUE, FALSE)
    ELSE IF first_opcode = \h8A THEN ReadAccess(1, FALSE, TRUE)
    ELSE IF first_opcode = \h8B THEN ReadAccess(wide, FALSE, TRUE)
    ELSE IF first_opcode = \h88 THEN WriteAccess(1, Mask64(gregs["RAX"], 1))
    ELSE IF first_opcode = \h89 THEN WriteAccess(wide, Mask64(gregs["RAX"], wide))
    ELSE IF first_opcode = \hC6
    THEN WriteAccess(1, Immediate(instruction, inst_length, 1))
    ELSE IF first_opcode = \hC7
    THEN WriteAccess(wide, Immediate(instruction, inst_length, wide))
    ELSE ReadAccess(4, FALSE, FALSE)

DispatchAt(instruction, gregs, inst_length, wide, o) ==
    Dispatch(instruction, gregs, inst_length, wide,
             Byte(instruction, o), Byte(instruction, o + 1))

\* the prefix walk of segv_handler from index p, behind the prefixes other
\* than 66: one 66 prefix, then a REX prefix
ParseAfterPrefixes(instruction, gregs, inst_length, p) ==
    IF Byte(instruction, p) = \h66
    THEN DispatchAt(instruction, gregs, inst_length, 2,
                    SkipRex(instruction, p + 1))
    ELSE DispatchAt(instruction, gregs, inst_length, 4,
                    SkipRex(instruction, p))

ParseAccess(instruction, gregs, inst_length) ==
    ParseAfterPrefixes(instruction, gregs, inst_length,
                       SkipWhile(instruction, 1, LegacyPrefixes \ {\h66}))

----------------------------------------------------------------------------
(* The trap engine: segv_handler *)

\* a window test without its upper end
FaultMatches_NoUpperEnd(e, a) == Ge64(a, Widen(e.base_address))

\* fault_addr >= device_base && fault_addr < device_base + device_size:
\* the sum is a uint32_t, the comparison is made in 64 bits
FaultMatches(e, a) ==
    Ge64(a, Widen(e.base_address))
    /\ Lt64(a, Widen(Add32(e.base_address, e.size)))

\* the value of an expression worked out once
The(S) == CHOOSE x \in S : TRUE

\* first index whose window the scan takes a to be in, 0 for none
RECURSIVE FaultLookupFrom(_, _, _)
FaultLookupFrom(devs, a, i) ==
    IF i > Len(devs) THEN 0
    ELSE IF FaultMatches(devs[i], a) THEN i
    ELSE FaultLookupFrom(devs, a, i + 1)

FaultLookup(devs, a) == FaultLookupFrom(devs, a, 1)

\* a loop count as a number; any count above MaxStores is MaxStores + 1
CountOf(c) ==
    IF c[1] = 0 /\ c[2] = 0 /\ c[3] = 0 /\ c[4] <= MaxStores
    THEN c[4]
    ELSE MaxStores + 1

StoreMessage(e, write_addr, value, size) ==
    [ZeroFrame EXCEPT !.device_id = e.device_id, !.command = CMD_WRITE,
                      !.address = write_addr, !.length = size,
                      !.data = Memcpy(@, Bytes64(value), size)]

\* what a store loop leaves: the requests it made and the descriptor
\* table; runaway: it had more than MaxStores iterations to make
LoopEnd(log, fds, runaway) ==
    [requests |-> log, fds |-> fds, runaway |-> runaway]

\* The store loops of segv_handler (REP STOS, and the AVX memset when
\* op.avx) from iteration j on.  The REP STOS loop ends on a failed send
\* or a response that is not SUCCESS; the AVX loop ends on a failed send
\* or at the end of the window.
RECURSIVE StoreLoop(_, _, _, _, _)

\* after the send of iteration j
StoreSent(j, op, envAt, log, r) ==
    IF r.ret # 0 \/ (~op.avx /\ r.response.result # RESULT_SUCCESS)
    THEN LoopEnd(log, r.fds, FALSE)
    ELSE StoreLoop(j + 1, op, envAt, r.fds, log)

StoreSend(j, op, envAt, fds, log, message) ==
    StoreSent(j, op, envAt,
              Append(log, Exchange(message, TRUE, envAt[j + 1], fds,
                                   SendMessageToModel(message, TRUE, ZeroFrame,
                                                      fds, envAt[j + 1]))),
              SendMessageToModel(message, TRUE, ZeroFrame, fds, envAt[j + 1]))

StoreAt(j, op, envAt, fds, log, write_addr) ==
    IF op.avx /\ Ge32(write_addr, Add32(op.entry.base_address, op.entry.size))
    THEN LoopEnd(log, fds, FALSE)
    ELSE StoreSend(j, op, envAt, fds, log,
                   StoreMessage(op.entry, write_addr, op.value, op.size))

StoreLoop(j, op, envAt, fds, log) ==
    IF j >= op.n THEN LoopEnd(log, fds, FALSE)
    ELSE IF j >= MaxStores THEN LoopEnd(log, fds, TRUE)
    ELSE StoreAt(j, op, envAt, fds, log,
                 Trunc32(Add64(op.dest, Small64(j * op.size))))

\* what a run of the handler leaves: the saved context, the requests it
\* made, the descriptor table, and whether it ended in exit(1)
Handled(gregs, requests, fds, exited, runaway) ==
    [gregs |-> gregs, requests |-> requests, fds |-> fds, exited |-> exited,
     runaway |-> runaway]

\* uctx->uc_mcontext.gregs[REG_RIP] += inst_length
AdvanceRip(gregs, inst_length) ==
    [gregs EXCEPT !["RIP"] = Add64(@, Small64(inst_length))]

\* the end of both store paths: RCX = 0, RDI behind the stores, RIP
\* behind the instruction
StoresDone(gregs, rdi, inst_length, loop) ==
    Handled(AdvanceRip([gregs EXCEPT !["RCX"] = ZERO64, !["RDI"] = rdi],
                       inst_length),
            loop.requests, loop.fds, FALSE, loop.runaway)

\* the AVX memset pattern: a VEX prefix C5, the fault in a window, RCX in
\* 1..1024 and RDI at the fault address
IsAvxMemset(instruction, fault_addr, gregs, devs) ==
    /\ Byte(instruction, 1) = \hC5
    /\ FaultLookup(devs, fault_addr) # 0
    /\ gregs["RCX"] # ZERO64
    /\ ~Lt64(U64(0, 0, 0, 1024), gregs["RCX"])
    /\ gregs["RDI"] = fault_addr

AvxMemset(fault_addr, gregs, devs, fds, envAt, inst_length) ==
    StoresDone(gregs, Add64(gregs["RDI"], gregs["RCX"]), inst_length,
               StoreLoop(0, [n |-> CountOf(gregs["RCX"]),
                             entry |-> devs[FaultLookup(devs, fault_addr)],
                             dest |-> gregs["RDI"], size |-> 1,
                             value |-> Mask64(gregs["RAX"], 1), avx |-> TRUE],
                         envAt, fds, <<>>))

\* count = (device_base + device_size - dest_addr) / stos_size
\* if (dest_addr + count * stos_size > device_base + device_size)
StosCount(count, dest_addr, e, stos_size) ==
    IF Lt64(Widen(Add32(e.base_address, e.size)),
            Add64(dest_addr, MulSmall64(count, stos_size)))
    THEN DivSmall64(Sub64(Widen(Add32(e.base_address, e.size)), dest_addr),
                    stos_size)
    ELSE count

\* the REP STOS path once the device and the count are settled
StosStores(stos_size, gregs, e, fds, envAt, inst_length, count) ==
    StoresDone(gregs, Add64(gregs["RDI"], MulSmall64(count, stos_size)),
               inst_length,
               StoreLoop(0, [n |-> CountOf(count), entry |-> e,
                             dest |-> gregs["RDI"], size |-> stos_size,
                             value |-> Mask64(gregs["RAX"], stos_size),
                             avx |-> FALSE],
                         envAt, fds, <<>>))

StosAtDevice(stos_size, gregs, devs, fds, envAt, inst_length, i) ==
    IF i = 0
    THEN Handled(gregs, <<>>, fds, TRUE, FALSE)
    ELSE StosStores(stos_size, gregs, devs[i], fds, envAt, inst_length,
                    StosCount(gregs["RCX"], gregs["RDI"], devs[i], stos_size))

\* the REP STOS path of segv_handler: the device is looked up by RDI
RepStosHandler(stos_size, gregs, devs, fds, envAt, inst_length) ==
    StosAtDevice(stos_size, gregs, devs, fds, envAt, inst_length,
                 FaultLookup(devs, gregs["RDI"]))

\* the update of the destination register of a read
Writeback(old, read_data, access_size) ==
    IF access_size = 1
    THEN U64(old[1], old[2], old[3],
             (old[4] \div 256) * 256 + (read_data[4] % 256))
    ELSE IF access_size = 2
    THEN U64(old[1], old[2], old[3], read_data[4])
    ELSE IF access_size = 4
    THEN U64(0, 0, read_data[3], read_data[4])
    ELSE read_data

\* if (!is_write && response.result == RESULT_SUCCESS) the destination
\* register takes the data of the response
Loaded(instruction, gregs, access, r) ==
    IF r.ret = 0 /\ ~access.is_write /\ r.response.result = RESULT_SUCCESS
    THEN [gregs EXCEPT
             ![get_destination_register_from_modrm(
                   instruction, access.is_two_byte_opcode)] =
                 Writeback(@, Load64(r.response.data, access.access_size),
                           access.access_size)]
    ELSE gregs

\* if (send_message_to_model(...) == 0) { ... gregs[REG_RIP] += inst_length; }
Resume(ret, gregs, inst_length) ==
    IF ret = 0 THEN AdvanceRip(gregs, inst_length) ELSE gregs

AccessMessage(e, fault_addr, access) ==
    [ZeroFrame EXCEPT
        !.device_id = e.device_id,
        !.command = IF access.is_write THEN CMD_WRITE ELSE CMD_READ,
        !.address = Trunc32(fault_addr),
        !.length = access.access_size,
        !.data = IF access.is_write
                 THEN Memcpy(@, Bytes64(access.write_data), access.access_size)
                 ELSE @]

AccessSent(instruction, gregs, fds, env, inst_length, access, message, r) ==
    Handled(Resume(r.ret, Loaded(instruction, gregs, access, r), inst_length),
            <<Exchange(message, TRUE, env, fds, r)>>, r.fds, FALSE, FALSE)

AccessSend(instruction, gregs, fds, env, inst_length, access, message) ==
    The({AccessSent(instruction, gregs, fds, env, inst_length, access,
                    message, r) :
             r \in {SendMessageToModel(message, TRUE, ZeroFrame, fds, env)}})

AccessAtDevice(instruction, fault_addr, gregs, devs, fds, env, inst_length, access, i) ==
    IF i = 0
    THEN Handled(gregs, <<>>, fds, TRUE, FALSE)
    ELSE The({AccessSend(instruction, gregs, fds, env, inst_length, access,
                         message) :
                  message \in {AccessMessage(devs[i], fault_addr, access)}})

\* the load / store path of segv_handler
AccessHandler(instruction, fault_addr, gregs, devs, fds, env, inst_length) ==
    The({AccessAtDevice(instruction, fault_addr, gregs, devs, fds, env,
                        inst_length, access, i) :
             access \in {ParseAccess(instruction, gregs, inst_length)},
             i \in {FaultLookup(devs, fault_addr)}})

SegvDispatch(instruction, fault_addr, gregs, devs, fds, envAt, inst_length, stos) ==
    IF IsAvxMemset(instruction, fault_addr, gregs, devs)
    THEN AvxMemset(fault_addr, gregs, devs, fds, envAt, inst_length)
    ELSE IF stos.is_rep_stos
    THEN RepStosHandler(stos.stos_size, gregs, devs, fds, envAt, inst_length)
    ELSE AccessHandler(instruction, fault_addr, gregs, devs, fds, envAt[1],
                       inst_length)

\* segv_handler(sig, info, context) for the instruction at the saved RIP,
\* the fault address info->si_addr and the saved registers gregs; envAt[k]
\* is what the k-th exchange with the model meets
segv_handler(instruction, fault_addr, gregs, devs, fds, envAt) ==
    The({SegvDispatch(instruction, fault_addr, gregs, devs, fds, envAt,
                      inst_length, stos) :
             inst_length \in {get_instruction_length(instruction)},
             stos \in {RepStos(instruction)}})

\* the saved registers of a fault: every register holds a value of its own
Gregs0 ==
    [r \in Regs |->
        IF r = "RIP" THEN U64(0, 0, \h0040, \h1000)
        ELSE LET k == CHOOSE i \in 1..16 : RegOfField[i] = r
             IN  U64(\h0F00 + k, \h0E00 + k, \h0D00 + k, \h0C00 + k)]

\* no fault handled yet
NoTrap ==
    [insn |-> <<>>, fault_addr |-> ZERO64, before |-> Gregs0, after |-> Gregs0,
     requests |-> <<>>, outcome |-> "none", runaway |-> FALSE, attempt |-> 0]

----------------------------------------------------------------------------
(* Interrupt delivery *)

\* the table before any registration: a static array, all slots null
NoHandlers == [i \in 0..(MAX_IRQS - 1) |-> NULL]

\* no SIGUSR1 is pending.  unacked: the signal was sent after the model
\* processed a WRITE whose response the driver has not received yet
NoSignal == [pending |-> FALSE, unacked |-> FALSE]

\* no request is on its way: the driver is not inside
\* send_message_to_model, the model has nothing to work on and no
\* response frame waits in the socket
IdleWire == [driver |-> "idle", model |-> "idle", reply |-> FALSE]

\* no handler has been run yet
NoDispatch ==
    [by |-> "none", read |-> <<>>, calls |-> <<>>, crashed |-> FALSE,
     unacked |-> FALSE]

\* one call of a handler with the arguments it finds in its parameters
Invocation(handler, args) == [handler |-> handler, args |-> args]

InRange_OffByOne(interrupt_id) == interrupt_id <= MAX_IRQS

\* if (interrupt_id < MAX_IRQS)
InRange(interrupt_id) == interrupt_id < MAX_IRQS

\* register_interrupt_handler(interrupt_id, handler)
register_interrupt_handler(interrupt_id, handler) ==
    /\ interrupt_handlers' =
           IF InRange(interrupt_id)
           THEN [interrupt_handlers EXCEPT ![interrupt_id] = handler]
           ELSE interrupt_handlers
    /\ call' = [op |-> "register_interrupt_handler",
                args |-> <<interrupt_id, handler>>,
                ret |-> IF InRange(interrupt_id) THEN 0 ELSE -1]
    /\ xfer' = NoExchange
    /\ UNCHANGED <<registry, lifecycle, trap, driver, sidecar, sigusr1, wire,
                   dispatch>>

HasHandler_NoNullCheck(device_id) == device_id < MAX_DEVICES

\* if (device_id < MAX_DEVICES && interrupt_handlers[device_id]), in the
\* table of interface_layer.c, which is indexed by the first argument of
\* register_interrupt_handler as the one of driver_interface.c is
HasHandler(device_id) ==
    device_id < MAX_DEVICES /\ interrupt_handlers[device_id] # NULL

\* the slot emptied by the call it served
trigger_interrupt_OneShot(device_id, interrupt_id) ==
    /\ dispatch' =
           [NoDispatch EXCEPT
               !.by = "call",
               !.calls = IF HasHandler(device_id)
                         THEN <<Invocation(interrupt_handlers[device_id],
                                           <<device_id, interrupt_id>>)>>
                         ELSE <<>>]
    /\ call' = [op |-> "trigger_interrupt",
                args |-> <<device_id, interrupt_id>>,
                ret |-> IF HasHandler(device_id) THEN 0 ELSE -1]
    /\ xfer' = NoExchange
    /\ interrupt_handlers' =
           IF HasHandler(device_id)
           THEN [interrupt_handlers EXCEPT ![device_id] = NULL]
           ELSE interrupt_handlers
    /\ UNCHANGED <<registry, lifecycle, trap, driver, sidecar, sigusr1, wire>>

\* trigger_interrupt(device_id, interrupt_id) of interface_layer.c
trigger_interrupt(device_id, interrupt_id) ==
    /\ dispatch' =
           [NoDispatch EXCEPT
               !.by = "call",
               !.calls = IF HasHandler(device_id)
                         THEN <<Invocation(interrupt_handlers[device_id],
                                           <<device_id, interrupt_id>>)>>
                         ELSE <<>>]
    /\ call' = [op |-> "trigger_interrupt",
                args |-> <<device_id, interrupt_id>>,
                ret |-> IF HasHandler(device_id) THEN 0 ELSE -1]
    /\ xfer' = NoExchange
    /\ UNCHANGED <<registry, lifecycle, trap, driver, interrupt_handlers, sidecar,
                   sigusr1, wire>>

\* The words interrupt_handlers[interrupt_id] can yield.  The handler
\* indexes the table with the number it read from the file, unchecked:
\* beyond the table the read is of whatever lies behind it, a null
\* pointer, a wild pointer or the address of a function.
SlotValues(interrupt_id, functions) ==
    IF interrupt_id < MAX_IRQS
    THEN {interrupt_handlers[interrupt_id]}
    ELSE functions \cup {NULL}

\* interrupt_handlers[interrupt_id](interrupt_id): a null or wild pointer
\* ends the process; a handler is entered with interrupt_id in its first
\* parameter and, having been passed one argument for its two parameters
\* (device_id, interrupt_id), whatever the register holds in its second
CallSlot(interrupt_id, fp, second) ==
    [calls |-> IF fp = NULL THEN <<>>
               ELSE <<Invocation(fp, <<interrupt_id, second>>)>>,
     crashed |-> fp = NULL]

\* interrupt_signal_handler(sig, info, context): fp is the word the table
\* read yields, second what the callee finds in its second parameter
interrupt_signal_handler(fp, second) ==
    IF sidecar = <<>>
    THEN \* fopen fails: nothing is read, nothing is called
         /\ dispatch' = [NoDispatch EXCEPT !.by = "signal",
                                           !.unacked = sigusr1.unacked]
         /\ UNCHANGED pending
    ELSE /\ pending' = [device |-> sidecar[1], id |-> sidecar[2], flag |-> 1]
         /\ dispatch' = [by |-> "signal", read |-> sidecar,
                         calls |-> CallSlot(sidecar[2], fp, second).calls,
                         crashed |-> CallSlot(sidecar[2], fp, second).crashed,
                         unacked |-> sigusr1.unacked]

----------------------------------------------------------------------------
(* Inputs *)

DeviceIds == {1, 2}

UART_BASE_ADDR == U32(\h4000, 0)

UART_SIZE == U32(0, \h1000)

\* the window of the tests, one that overlaps its upper half, one that
\* ends at the top of the 32-bit address space, and an empty one
Windows ==
    {[base |-> UART_BASE_ADDR, size |-> UART_SIZE],
     [base |-> U32(\h4000, \h0800), size |-> UART_SIZE],
     [base |-> U32(\hFFFF, \hF000), size |-> UART_SIZE],
     [base |-> U32(\h5000, 0), size |-> ZERO32]}

\* addresses probed: inside, on the edges of and outside the windows
Addresses ==
    {UART_BASE_ADDR, U32(\h4000, 4), U32(\h4000, \h0FFF), U32(\h4000, \h1000),
     U32(\h4000, \h17FF), U32(\h3FFF, \hFFFF), U32(\hFFFF, \hF000),
     U32(\hFFFF, \hFFFF), ZERO32}

Values == {U32(\h1234, \h5678), U32(\hDEAD, \hBEEF)}

\* write_register calls: a whole word, and the low byte of one
Writes ==
    {[data |-> v, size |-> 4] : v \in Values}
    \cup {[data |-> U32(\h1234, \h5678), size |-> 1]}

\* the registrations and the addresses of SpecAccess: an address of the
\* first window only, its STATUS register, a STATUS register in both
\* overlapping windows, one in the window at the top, one in no window
AccessDevices ==
    {[id |-> 1, base |-> UART_BASE_ADDR, size |-> UART_SIZE],
     [id |-> 2, base |-> U32(\h4000, \h0800), size |-> UART_SIZE],
     [id |-> 2, base |-> U32(\hFFFF, \hF000), size |-> UART_SIZE]}

AccessAddresses ==
    {UART_BASE_ADDR, U32(\h4000, 4), U32(\h4000, \h0804),
     U32(\hFFFF, \hF000), U32(\h3FFF, \hFFFF)}

\* the requests of direct send_message_to_model calls
Messages ==
    {[ZeroFrame EXCEPT !.device_id = 1, !.command = CMD_READ, !.address = a,
                       !.length = 4] : a \in {UART_BASE_ADDR, U32(\h4000, 4)}}
    \cup {[ZeroFrame EXCEPT !.device_id = 1, !.command = CMD_WRITE,
                            !.address = a, !.length = 4,
                            !.data = Memcpy(@, Bytes32(v), 4)] :
              a \in {U32(\h4000, 4)}, v \in Values}

Init ==
    /\ devices = <<>>
    /\ mmap_count = 0
    /\ munmaps = <<>>
    /\ sig_handlers = [segv |-> FALSE, usr1 |-> FALSE]
    /\ pid_file = FALSE
    /\ socket_path = FALSE
    /\ server_socket = -1
    /\ open_fds = {}
    /\ pending = [device |-> 0, id |-> 0, flag |-> 0]
    /\ call = [op |-> "none", args |-> <<>>, ret |-> 0]
    /\ xfer = NoExchange
    /\ trap = NoTrap
    /\ interrupt_handlers = NoHandlers
    /\ sidecar = <<>>
    /\ sigusr1 = NoSignal
    /\ wire = IdleWire
    /\ dispatch = NoDispatch
    /\ uart_initialized = 0

InterfaceLayerInit ==
    /\ Cardinality(open_fds) < MaxFds
    /\ \E outcome \in InitOutcomes, pid_ok \in BOOLEAN :
           interface_layer_init(outcome, pid_ok)
    /\ UNCHANGED <<trap, interrupts, driver>>

InterfaceLayerDeinit == interface_layer_deinit /\ UNCHANGED <<trap, interrupts, driver>>

RegisterDevice ==
    /\ mmap_count < MaxMaps
    /\ \E id \in DeviceIds, w \in Windows, ok \in BOOLEAN :
           register_device(id, w.base, w.size, ok)
    /\ UNCHANGED <<trap, interrupts, driver>>

UnregisterDevice ==
    /\ \E id \in DeviceIds : unregister_device(id)
    /\ UNCHANGED <<trap, interrupts, driver>>

\* the registry and the lifecycle of the interface layer
Next ==
    \/ InterfaceLayerInit
    \/ InterfaceLayerDeinit
    \/ RegisterDevice
    \/ UnregisterDevice

Spec == Init /\ [][Next]_vars

RegisterAccess ==
    /\ mmap_count < MaxMapsAccess
    /\ \E d \in AccessDevices, ok \in BOOLEAN :
           register_device(d.id, d.base, d.size, ok)
    /\ UNCHANGED <<trap, interrupts, driver>>

ReadRegister ==
    /\ \E a \in AccessAddresses, nfail \in 0..1, env \in Envs :
           read_register(a, 4, nfail, env)
    /\ UNCHANGED <<trap, interrupts, driver>>

WriteRegister ==
    /\ \E a \in AccessAddresses, w \in Writes, env \in Envs :
           write_register(a, w.data, w.size, env)
    /\ UNCHANGED <<trap, interrupts, driver>>

SendMessage ==
    /\ \E m \in Messages, has_response \in BOOLEAN, env \in Envs :
           send_message_to_model(m, has_response, env)
    /\ UNCHANGED <<trap, interrupts, driver>>

\* register access and the model transport
NextAccess ==
    \/ RegisterAccess
    \/ UnregisterDevice
    \/ ReadRegister
    \/ WriteRegister
    \/ SendMessage

SpecAccess == Init /\ [][NextAccess]_vars

UartWindow == {[base |-> UART_BASE_ADDR, size |-> UART_SIZE]}

RegisterFull ==
    /\ mmap_count < MaxMapsFull
    /\ \E w \in UartWindow, ok \in BOOLEAN : register_device(1, w.base, w.size, ok)
    /\ UNCHANGED <<trap, interrupts, driver>>

UnregisterFull == unregister_device(1) /\ UNCHANGED <<trap, interrupts, driver>>

\* a registry filled to MAX_DEVICES
NextFull ==
    \/ RegisterFull
    \/ UnregisterFull
    \/ InterfaceLayerDeinit

SpecFull == Init /\ [][NextFull]_vars

----------------------------------------------------------------------------
(* The trap engine at work *)

\* loads, stores of a register, stores of an immediate, and instructions
\* outside the supported set, each with all its bytes
LoadInstructions ==
    {<<\h8B, \h00>>,                                  \* mov eax, [rax]
     <<\h8B, \h1F>>,                                  \* mov ebx, [rdi]
     <<\h66, \h8B, \h08>>,                            \* mov cx, [rax]
     <<\h8A, \h10>>,                                  \* mov dl, [rax]
     <<\h8A, \h20>>,                                  \* mov ah, [rax]
     <<\h40, \h8A, \h20>>,                            \* mov spl, [rax]
     <<\h44, \h8B, \h00>>,                            \* mov r8d, [rax]
     <<\h48, \h8B, \h00>>,                            \* mov rax, [rax]
     <<\h8B, \h04, \h25, \h00, \h00, \h00, \h40>>,    \* mov eax, [0x40000000]
     <<\h8B, \h40, \h04>>,                            \* mov eax, [rax + 4]
     <<\h0F, \hB6, \h00>>,                            \* movzx eax, byte [rax]
     <<\h0F, \hBF, \h00>>}                            \* movsx eax, word [rax]

StoreInstructions ==
    {<<\h89, \h00>>,                                  \* mov [rax], eax
     <<\h89, \h18>>,                                  \* mov [rax], ebx
     <<\h88, \h00>>,                                  \* mov [rax], al
     <<\h66, \h89, \h00>>,                            \* mov [rax], ax
     <<\h48, \h89, \h00>>,                            \* mov [rax], rax
     <<\hC7, \h00, \h78, \h56, \h34, \h12>>,          \* mov dword [rax], 0x12345678
     <<\hC6, \h00, \h5A>>,                            \* mov byte [rax], 0x5A
     <<\h66, \hC7, \h00, \h34, \h12>>}                \* mov word [rax], 0x1234

UnknownInstructions ==
    {<<\h01, \h00>>,                                  \* add [rax], eax
     <<\h0F, \h11, \h00>>}                            \* movups [rax], xmm0

StosInstructions ==
    {<<\hF3, \hAA>>,                                  \* rep stosb
     <<\hF3, \hAB>>,                                  \* rep stosd
     <<\hF3, \h66, \hAB>>,                            \* rep stosw
     <<\hF3, \h48, \hAB>>}                            \* rep stosq

AvxInstructions == {<<\hC5, \hFE, \h7F, \h07>>}       \* vmovdqu [rdi], ymm0

\* fault addresses: in the window of the tests, in the window at the top
\* of the 32-bit address space, in no window, and 4 GiB above the window
\* of the tests
TrapAddresses ==
    {U64(0, 0, \h4000, 0), U64(0, 0, \h4000, 4), U64(0, 0, \hFFFF, \hF000),
     U64(0, 0, \h7FFF, \hFF00), U64(0, 1, \h4000, 0)}

\* destinations of string stores: inside the window, eight bytes and four
\* bytes before its end, and in no window
StosDests ==
    {U64(0, 0, \h4000, \h0200), U64(0, 0, \h4000, \h0FFC),
     U64(0, 0, \h7FFF, \hFF00)}

\* counts of string stores: none, two, four, and 2^62, whose product
\* with the element size 4 is 0 in uint64_t
StosCounts == {ZERO64, Small64(2), Small64(4), U64(\h4000, 0, 0, 0)}

RaxValue == U64(\h1111, \h2222, \h1234, \h5678)

Faults ==
    {[insn |-> i, fault_addr |-> a, gregs |-> [Gregs0 EXCEPT !["RAX"] = RaxValue]] :
        i \in LoadInstructions \cup StoreInstructions \cup UnknownInstructions,
        a \in TrapAddresses}
    \cup {[insn |-> i, fault_addr |-> d,
           gregs |-> [Gregs0 EXCEPT !["RAX"] = RaxValue, !["RCX"] = c,
                                    !["RDI"] = d]] :
             i \in StosInstructions \cup AvxInstructions,
             d \in StosDests, c \in StosCounts}

\* what the exchanges of one handler run meet: good, except the nbad-th
\* one, which meets bad
TrapEnvs ==
    {[k \in 1..MaxStores |-> IF k = nbad THEN bad ELSE good] :
        good \in {[SocketFails EXCEPT !.socket_ok = TRUE],
                  [socket_ok |-> TRUE, connect_ok |-> TRUE, sent |-> FRAME_SIZE,
                   received |-> FRAME_SIZE,
                   reply |-> [value |-> U32(\h1234, \h5678),
                              high |-> U32(\h9ABC, \hDEF0),
                              result |-> RESULT_SUCCESS]]},
        bad \in {SocketFails,
                 [socket_ok |-> TRUE, connect_ok |-> TRUE, sent |-> FRAME_SIZE,
                  received |-> FRAME_SIZE,
                  reply |-> [value |-> ZERO32, result |-> 1]]},
        nbad \in 0..2}

TrapDevices ==
    {[id |-> 1, base |-> UART_BASE_ADDR, size |-> UART_SIZE],
     [id |-> 2, base |-> U32(\hFFFF, \hF000), size |-> UART_SIZE]}

\* the handler returned with the saved RIP where it was: the kernel
\* resumes the driver at the same instruction, which faults again
Refaulting ==
    trap.outcome = "return" /\ trap.after["RIP"] = trap.before["RIP"]

\* one delivery of SIGSEGV: the handler runs from entry to return or exit
Delivered(f, attempt, h) ==
    /\ trap' = [insn |-> f.insn, fault_addr |-> f.fault_addr,
                before |-> f.gregs, after |-> h.gregs,
                requests |-> h.requests,
                outcome |-> IF h.exited THEN "exit" ELSE "return",
                runaway |-> h.runaway, attempt |-> attempt]
    /\ open_fds' = h.fds
    /\ UNCHANGED <<devices, mmap_count, munmaps, sig_handlers, pid_file,
                   socket_path, server_socket, pending, call, xfer,
                   interrupts, driver>>

Deliver(f, envAt, attempt) ==
    Delivered(f, attempt,
              segv_handler(f.insn, f.fault_addr, f.gregs, devices, open_fds,
                           envAt))

\* the driver runs into an instruction that faults
Fault ==
    /\ sig_handlers.segv
    /\ trap.outcome = "none"
    /\ \E f \in Faults, envAt \in TrapEnvs : Deliver(f, envAt, 0)

\* the instruction the handler did not step over faults again
Refault ==
    /\ Refaulting
    /\ \E envAt \in TrapEnvs :
           Deliver([insn |-> trap.insn, fault_addr |-> trap.fault_addr,
                    gregs |-> trap.after], envAt, 1 - trap.attempt)

\* the handler returned with the saved RIP moved on: the kernel resumes
\* the driver behind the instruction
SigReturn ==
    /\ trap.outcome = "return"
    /\ ~Refaulting
    /\ trap' = NoTrap
    /\ UNCHANGED <<devices, mmap_count, munmaps, sig_handlers, pid_file,
                   socket_path, server_socket, open_fds, pending, call, xfer,
                   interrupts, driver>>

\* where the kernel put the h-th reservation of the process: mmap(NULL, ...)
\* of an x86-64 process answers in the mmap area, far above 4 GiB
HostAddress(h) == U64(0, \h7F00 + h, 0, 0)

\* get_device_mapped_memory(device_id): the host reservation of the entry
\* with that id, NULL when there is none
get_device_mapped_memory(devs, device_id) ==
    IF FindId(devs, device_id) = 0 THEN NULL
    ELSE devs[FindId(devs, device_id)].mapped_memory

\* *mapped_addr = 0x0F and status = *(mapped_addr + 1) of
\* tests/test_uart_integration.c
HostInstructions == {<<\hC7, \h00, \h0F, \h00, \h00, \h00>>, <<\h8B, \h00>>}

HostOffsets == {0, 4}

\* driver code dereferences the pointer get_device_mapped_memory gave it
HostFault ==
    /\ sig_handlers.segv
    /\ trap.outcome = "none"
    /\ \E id \in DeviceIds, insn \in HostInstructions, off \in HostOffsets,
          envAt \in TrapEnvs :
           /\ get_device_mapped_memory(devices, id) # NULL
           /\ Deliver([insn |-> insn,
                       fault_addr |->
                           Add64(HostAddress(get_device_mapped_memory(devices, id)),
                                 Small64(off)),
                       gregs |-> [Gregs0 EXCEPT !["RAX"] = RaxValue]],
                      envAt, 0)

RegisterTrap ==
    /\ trap.outcome = "none"
    /\ mmap_count < MaxMapsTrap
    /\ \E d \in TrapDevices : register_device(d.id, d.base, d.size, TRUE)
    /\ UNCHANGED <<trap, interrupts, driver>>

UnregisterTrap ==
    /\ trap.outcome = "none"
    /\ \E id \in DeviceIds : unregister_device(id)
    /\ UNCHANGED <<trap, interrupts, driver>>

\* the state a successful interface_layer_init leaves
InitTrap ==
    /\ devices = <<>>
    /\ mmap_count = 0
    /\ munmaps = <<>>
    /\ sig_handlers = [segv |-> TRUE, usr1 |-> TRUE]
    /\ pid_file = TRUE
    /\ socket_path = TRUE
    /\ server_socket = 3
    /\ open_fds = {3}
    /\ pending = [device |-> 0, id |-> 0, flag |-> 0]
    /\ call = [op |-> "interface_layer_init", args |-> <<>>, ret |-> 0]
    /\ xfer = NoExchange
    /\ trap = NoTrap
    /\ interrupt_handlers = NoHandlers
    /\ sidecar = <<>>
    /\ sigusr1 = NoSignal
    /\ wire = IdleWire
    /\ dispatch = NoDispatch
    /\ uart_initialized = 0

\* faults of driver code on a registry of up to MaxMapsTrap devices
NextTrap ==
    \/ RegisterTrap
    \/ UnregisterTrap
    \/ Fault
    \/ HostFault
    \/ Refault
    \/ SigReturn

SpecTrap == InitTrap /\ [][NextTrap]_vars

\* the kernel resumes the driver whenever the handler has returned
SpecTrapFair == SpecTrap /\ WF_vars(Refault)

----------------------------------------------------------------------------
(* Properties *)

\* base + size of a window without the 32-bit wrap-around
WindowEnd(base, size) ==
    LET lo == base[2] + size[2]
    IN  <<base[1] + size[1] + (lo \div W16), lo % W16>>

\* base <= a < base + size
Contains(base, size, a) == Ge32(a, base) /\ Lt32(a, WindowEnd(base, size))

Overlap(e, f) ==
    /\ Lt32(e.base_address, WindowEnd(f.base_address, f.size))
    /\ Lt32(f.base_address, WindowEnd(e.base_address, e.size))

Live == 1..Len(devices)

UniqueIds ==
    \A i, j \in Live : i # j => devices[i].device_id # devices[j].device_id

DisjointWindows ==
    \A i, j \in Live : i # j => ~Overlap(devices[i], devices[j])

\* the answer of the fallback responder to a request, spelled out
IsFallbackAnswer(request, response) ==
    /\ response.result = 0
    /\ response.device_id = request.device_id
    /\ response.command = request.command
    /\ response.address = request.address
    /\ response.length = request.length
    /\ IF request.command = 1
       THEN Load32(response.data) =
                IF request.address[2] % 256 = 4 THEN <<0, 1>>
                ELSE <<\hDEAD, \hBEEF>>
       ELSE response.data = request.data

\* C1: no two live registry entries have the same device_id, after any
\* sequence of register_device, unregister_device and
\* interface_layer_deinit calls.
C1_UniqueDeviceIds == UniqueIds

\* C2: the windows [base_address, base_address + size) of the live
\* registry entries are pairwise disjoint.
C2_WindowsDisjoint == DisjointWindows

\* C3: for every live entry and every address, the lookup selects the
\* entry if and only if base <= address < base + size, the sum taken
\* without wrap-around.  Stated for registries whose ids are unique and
\* whose windows are disjoint, so that at most one entry can contain an
\* address.
C3_LookupIsContainment ==
    (UniqueIds /\ DisjointWindows) =>
        \A a \in Addresses : \A i \in Live :
            (Lookup(devices, a) = i) <=>
                Contains(devices[i].base_address, devices[i].size, a)

\* C4: when register_device(id, base, size) has succeeded and
\* unregister_device(id) is called next, no address of [base, base + size)
\* resolves to a device afterwards and the registry has room for
\* registering the window again.
C4_UnregisterFreesWindow ==
    [][(/\ call.op = "register_device"
        /\ call.ret = 0
        /\ call'.op = "unregister_device"
        /\ call'.args[1] = call.args[1])
       => (/\ call'.ret = 0
           /\ \A a \in Addresses :
                  Contains(call.args[2], call.args[3], a)
                      => Lookup(devices', a) = 0
           /\ Len(devices') < MAX_DEVICES)]_vars

\* C5: the registry never holds more than MAX_DEVICES entries;
\* register_device on a full registry returns an error, and a failing
\* register_device leaves the entries, their count and the reservations
\* as they were.
C5_RegistryBounded ==
    [][/\ Len(devices') <= MAX_DEVICES
       /\ (call'.op = "register_device" /\ Len(devices) = MAX_DEVICES)
              => call'.ret = -1
       /\ (call'.op = "register_device" /\ call'.ret # 0)
              => (devices' = devices /\ mmap_count' = mmap_count
                  /\ munmaps' = munmaps)]_vars

C5_Witness ==
    /\ call.op = "register_device"
    /\ call.ret = -1
    /\ Len(devices) = MAX_DEVICES

\* C6: every reservation handed out by mmap is unmapped at most once, is
\* still mapped exactly while one live entry holds it, and no two live
\* entries hold the same one.
C6_ReleasedExactlyOnce ==
    \A h \in 1..mmap_count :
        LET holders == {i \in Live : devices[i].mapped_memory = h}
        IN  /\ munmaps[h] <= 1
            /\ Cardinality(holders) <= 1
            /\ (munmaps[h] = 0) <=> (holders # {})

\* one reservation released by unregister_device, another by
\* interface_layer_deinit, and a third one live again
C6_Witness ==
    /\ call.op = "register_device"
    /\ call.ret = 0
    /\ mmap_count = 3
    /\ munmaps = <<1, 1, 0>>
    /\ Len(devices) = 1

\* C7: unregister_device with an id that no live entry has returns -1 and
\* leaves the entries, their count and the reservations as they were.
C7_UnregisterUnknown ==
    [][(/\ call'.op = "unregister_device"
        /\ \A i \in Live : devices[i].device_id # call'.args[1])
       => (/\ call'.ret = -1
           /\ devices' = devices
           /\ mmap_count' = mmap_count
           /\ munmaps' = munmaps)]_vars

C7_Witness ==
    /\ call.op = "unregister_device"
    /\ call.ret = -1
    /\ Len(devices) > 0
    /\ \A i \in Live : devices[i].device_id # call.args[1]

\* C8: when the socket is there and connect fails, a request with a
\* response buffer is answered by the fallback: return value 0,
\* result = SUCCESS, 0x00000001 for a READ of an address with low byte
\* 0x04, 0xDEADBEEF for any other READ, and a WRITE echoed with its
\* device_id, address, length and data.
C8_FallbackAnswer ==
    (/\ xfer.path # "none"
     /\ xfer.has_response
     /\ xfer.env.socket_ok
     /\ ~xfer.env.connect_ok)
    => (/\ xfer.ret = 0
        /\ IsFallbackAnswer(xfer.request, xfer.response))

\* a STATUS read and a WRITE answered without a model
C8_Witness ==
    /\ xfer.path # "none"
    /\ xfer.has_response
    /\ xfer.env.socket_ok
    /\ ~xfer.env.connect_ok
    /\ xfer.request.command = CMD_READ
    /\ xfer.request.address = U32(\h4000, 4)
    /\ Load32(xfer.response.data) = U32(0, 1)

\* a read_register call answered by the fallback right after a
\* write_register call of a whole word to the same address, answered by
\* the fallback too
ReadAfterWrite ==
    /\ call.op = "read_register"
    /\ xfer.path = "fallback"
    /\ call.written.valid
    /\ call.written.path = "fallback"
    /\ call.written.size = 4

TransportFailed(x) ==
    /\ x.env.socket_ok
    /\ \/ ~x.env.connect_ok
       \/ x.env.sent # FRAME_SIZE
       \/ x.has_response /\ x.env.received # FRAME_SIZE

\* C10: when connect fails, or send or recv transfers anything other than
\* one complete frame, send_message_to_model closes the socket, gives the
\* answer of the fallback and returns 0; it returns an error only when
\* the socket could not be created.
C10_TransportFailureFallsBack ==
    xfer.path # "none" =>
        /\ TransportFailed(xfer) =>
               /\ xfer.ret = 0
               /\ ~xfer.sock_open
               /\ xfer.has_response
                      => IsFallbackAnswer(xfer.request, xfer.response)
        /\ (xfer.ret # 0) <=> ~xfer.env.socket_ok

\* a short recv answered by the fallback
C10_Witness ==
    /\ call.op = "send_message_to_model"
    /\ xfer.env.connect_ok
    /\ xfer.env.sent = FRAME_SIZE
    /\ xfer.env.received = 40
    /\ xfer.has_response
    /\ xfer.ret = 0
    /\ IsFallbackAnswer(xfer.request, xfer.response)

----------------------------------------------------------------------------
(* Interrupts at work *)

\* the handler functions of a driver
Handlers == {1, 2}

\* interrupt ids in the table, the first beyond it, and the one of the
\* interrupt round trip
IrqIds == {1, MAX_IRQS - 1, MAX_IRQS, \h42}

\* second arguments of trigger_interrupt
SubIds == {\h10, \h42}

\* what a model writes to the sidecar file: "device_id,interrupt_id"
Sidecars == {<<1, 1>>, <<1, \h42>>}

\* what a handler entered with one argument may find in its second
\* parameter
Leftovers == {0, 1, \h42}

\* the process has not been ended by a call through a bad pointer
Running == ~dispatch.crashed

RegisterInterruptHandler ==
    /\ Running
    /\ wire.driver = "idle"
    /\ \E id \in IrqIds, h \in Handlers \cup {NULL} :
           register_interrupt_handler(id, h)

TriggerInterrupt ==
    /\ Running
    /\ wire.driver = "idle"
    /\ \E id \in IrqIds, sub \in SubIds : trigger_interrupt(id, sub)

\* the driver makes a WRITE: send_message_to_model connects, sends the
\* frame and goes on to recv
WriteSend ==
    /\ Running
    /\ wire = IdleWire
    /\ wire' = [driver |-> "recv", model |-> "request", reply |-> FALSE]
    /\ UNCHANGED <<registry, lifecycle, call, xfer, trap, driver, interrupt_handlers,
                   sidecar, sigusr1, dispatch>>

\* recv returns the whole response frame: the WRITE is acknowledged
WriteRecv ==
    /\ Running
    /\ wire.driver = "recv"
    /\ wire.reply
    /\ wire' = IdleWire
    /\ sigusr1' = [sigusr1 EXCEPT !.unacked = FALSE]
    /\ UNCHANGED <<registry, lifecycle, call, xfer, trap, driver, interrupt_handlers,
                   sidecar, dispatch>>

\* the model takes the request and applies the WRITE
ModelProcess ==
    /\ wire.model = "request"
    /\ wire' = [wire EXCEPT !.model = "processed"]
    /\ UNCHANGED <<registry, lifecycle, call, xfer, trap, driver, interrupt_handlers,
                   sidecar, sigusr1, dispatch>>

\* the model sends the response frame; it is lost when the driver has
\* given up the connection
ModelRespond ==
    /\ wire.model = "processed"
    /\ wire' = [wire EXCEPT !.model = "idle",
                            !.reply = (wire.driver = "recv")]
    /\ UNCHANGED <<registry, lifecycle, call, xfer, trap, driver, interrupt_handlers,
                   sidecar, sigusr1, dispatch>>

\* the model raises an interrupt: it writes the sidecar file, then sends
\* SIGUSR1; a signal already pending absorbs the new one
ModelRaise ==
    /\ Running
    /\ \E sc \in Sidecars : sidecar' = sc
    /\ sigusr1' =
           [pending |-> TRUE,
            unacked |-> \/ sigusr1.unacked
                        \/ /\ wire.driver = "recv"
                           /\ (wire.model = "processed" \/ wire.reply)]
    /\ UNCHANGED <<registry, lifecycle, call, xfer, trap, driver, interrupt_handlers,
                   wire, dispatch>>

\* the model removes the sidecar file
ModelCleanup ==
    /\ sidecar # <<>>
    /\ sidecar' = <<>>
    /\ UNCHANGED <<registry, lifecycle, call, xfer, trap, driver, interrupt_handlers,
                   sigusr1, wire, dispatch>>

\* The kernel delivers the pending SIGUSR1.  Neither handler is installed
\* with a mask or with SA_RESTART, and the signal is never blocked: it is
\* delivered wherever the driver is, and a recv it interrupts returns -1,
\* on which send_message_to_model falls back to the simulated response.
SignalDispatch ==
    /\ Running
    /\ sig_handlers.usr1
    /\ sigusr1.pending
    /\ \E fp \in SlotValues(IF sidecar = <<>> THEN 0 ELSE sidecar[2], Handlers),
          second \in Leftovers :
           interrupt_signal_handler(fp, second)
    /\ sigusr1' = NoSignal
    /\ \E eintr \in (IF wire.driver = "recv" /\ ~wire.reply
                     THEN BOOLEAN ELSE {FALSE}) :
           wire' = IF eintr THEN [wire EXCEPT !.driver = "idle"] ELSE wire
    /\ UNCHANGED <<registry, sig_handlers, pid_file, socket_path,
                   server_socket, open_fds, call, xfer, trap, driver,
                   interrupt_handlers, sidecar>>

\* a driver with its handlers, a model that answers WRITEs and raises
\* interrupts, and the kernel delivering the signal
NextIrq ==
    \/ RegisterInterruptHandler
    \/ TriggerInterrupt
    \/ WriteSend
    \/ WriteRecv
    \/ ModelProcess
    \/ ModelRespond
    \/ ModelRaise
    \/ ModelCleanup
    \/ SignalDispatch

SpecIrq == InitTrap /\ [][NextIrq]_vars

----------------------------------------------------------------------------
(* Properties of the trap engine *)

\* The decoder of the specification (4.C), for an instruction given with
\* all its bytes: the opcode behind the legacy prefixes and an optional
\* REX prefix decides the category, the 66 and REX.W prefixes the size.
SpecDecode(insn) ==
    LET p == SkipWhile(insn, 1, LegacyPrefixes)
        rex == IF IsRex(Byte(insn, p)) THEN Byte(insn, p) ELSE 0
        o == IF rex # 0 THEN p + 1 ELSE p
        op == Byte(insn, o)
        op2 == Byte(insn, o + 1)
        has_66 == \E k \in 1..(p - 1) : insn[k] = \h66
        has_rep == \E k \in 1..(p - 1) : insn[k] = \hF3
        rex_w == (rex \div 8) % 2 = 1
        wide == IF rex_w THEN 8 ELSE IF has_66 THEN 2 ELSE 4
        modrm == Byte(insn, IF op = \h0F THEN o + 2 ELSE o + 1)
    IN  [category |->
             IF op = \h0F /\ op2 \in {\hB6, \hB7, \hBE, \hBF} THEN "LOAD"
             ELSE IF op \in {\h8A, \h8B} THEN "LOAD"
             ELSE IF op \in {\h88, \h89} THEN "STORE_REG"
             ELSE IF op \in {\hC6, \hC7} THEN "STORE_IMM"
             ELSE IF op \in {\hAA, \hAB} /\ has_rep THEN "REP_STOS"
             ELSE "UNKNOWN",
         operand_size |->
             IF op = \h0F THEN (IF op2 \in {\hB6, \hBE} THEN 1 ELSE 2)
             ELSE IF op \in {\h8A, \h88, \hC6, \hAA} THEN 1
             ELSE IF op = \hC7 THEN (IF has_66 THEN 2 ELSE 4)
             ELSE wide,
         reg |-> RegOfField[((modrm \div 8) % 8)
                            + (IF (rex \div 4) % 2 = 1 THEN 8 ELSE 0) + 1],
         length |-> Len(insn)]

\* base <= a < base + size for a 64-bit address a, the sum taken without
\* wrap-around
Contains64(e, a) ==
    LET end == WindowEnd(e.base_address, e.size)
    IN  /\ Ge64(a, Widen(e.base_address))
        /\ Lt64(a, U64(0, end[1] \div W16, end[1] % W16, end[2]))

\* the live entries whose window the address is in
Owners(a) == {i \in Live : Contains64(devices[i], a)}

\* the handler has run for an access of driver code
Trapped == trap.outcome # "none"

TrapCategory == SpecDecode(trap.insn).category

\* the saved context the handler found, with the program counter moved
\* past the instruction
Stepped(gregs, insn) ==
    [gregs EXCEPT !["RIP"] = Add64(@, Small64(Len(insn)))]

\* C11: for a faulting load, register store or immediate store at an
\* address in a registered window, the handler sends exactly one request,
\* READ for a load and WRITE for a store, with the id of the device that
\* owns the address, the fault address and length = operand size; when
\* the request succeeds the saved program counter has moved by the length
\* of the instruction; a store changes no other saved register.
C11_OneRequestPerAccess ==
    (/\ Trapped
     /\ TrapCategory \in {"LOAD", "STORE_REG", "STORE_IMM"}
     /\ Owners(trap.fault_addr) # {})
    => /\ trap.outcome = "return"
       /\ Len(trap.requests) = 1
       /\ LET q == trap.requests[1].request
          IN  /\ q.command = IF TrapCategory = "LOAD" THEN CMD_READ
                             ELSE CMD_WRITE
              /\ \E i \in Owners(trap.fault_addr) :
                     q.device_id = devices[i].device_id
              /\ Widen(q.address) = trap.fault_addr
              /\ q.length = SpecDecode(trap.insn).operand_size
       /\ trap.requests[1].ret = 0
              => trap.after["RIP"] = Stepped(trap.before, trap.insn)["RIP"]
       /\ TrapCategory # "LOAD"
              => \A r \in Regs \ {"RIP"} : trap.after[r] = trap.before[r]

\* the writes a REP STOS of count c at d with element size s has to make
\* in the window of e: min(c, (base + size - d) / s), as a number
StosFits(e, d, s) ==
    LET end == WindowEnd(e.base_address, e.size)
    IN  DivSmall64(Sub64(U64(0, end[1] \div W16, end[1] % W16, end[2]), d), s)

StosExpected(e, c, d, s) ==
    IF Lt64(StosFits(e, d, s), c) THEN StosFits(e, d, s) ELSE c

\* C12: for a REP STOS of count C at destination D with element size s
\* in a registered window, the handler emits exactly
\* min(C, (base + size - D) / s) WRITE requests of length s at D, D + s,
\* D + 2s, ..., each with the accumulator masked to s bytes; afterwards
\* the saved count is 0, the saved destination is D + emitted * s and the
\* program counter is past the instruction.
C12_RepStosWrites ==
    (/\ Trapped
     /\ TrapCategory = "REP_STOS"
     /\ Owners(trap.before["RDI"]) # {})
    => LET s == SpecDecode(trap.insn).operand_size
           d == trap.before["RDI"]
           e == devices[CHOOSE i \in Owners(d) : TRUE]
           n == StosExpected(e, trap.before["RCX"], d, s)
           emitted == Len(trap.requests)
       IN  /\ trap.outcome = "return"
           /\ Small64(emitted) = n
           /\ \A k \in 1..emitted :
                  LET q == trap.requests[k].request
                  IN  /\ q.command = CMD_WRITE
                      /\ q.length = s
                      /\ Widen(q.address) = Add64(d, Small64((k - 1) * s))
                      /\ q.data = Memcpy(ZeroData, Bytes64(trap.before["RAX"]), s)
           /\ trap.after["RCX"] = ZERO64
           /\ trap.after["RDI"] = Add64(d, Small64(emitted * s))
           /\ trap.after["RIP"] = Stepped(trap.before, trap.insn)["RIP"]

\* C13: a fault on an instruction outside the supported opcode set ends
\* the process: no request is sent and no saved register is changed.
C13_UnknownOpcodeTerminates ==
    (Trapped /\ TrapCategory = "UNKNOWN")
    => /\ trap.outcome = "exit"
       /\ trap.requests = <<>>
       /\ trap.after = trap.before

\* the address the handler has to find a device for: the destination of
\* a REP STOS, the fault address of any other instruction
TrapTarget ==
    IF TrapCategory = "REP_STOS" THEN trap.before["RDI"] ELSE trap.fault_addr

FailedRead ==
    /\ Trapped
    /\ TrapCategory = "LOAD"
    /\ Len(trap.requests) = 1
    /\ trap.requests[1].ret = 0
    /\ trap.requests[1].response.result # RESULT_SUCCESS

\* C15: when the response to a trapped READ has a result other than
\* SUCCESS, the destination register is written with zero and the saved
\* program counter is moved past the instruction.
C15_FailedReadWritesZero ==
    FailedRead =>
        LET d == SpecDecode(trap.insn)
        IN  /\ trap.after[d.reg] = Writeback(trap.before[d.reg], ZERO64,
                                             d.operand_size)
            /\ trap.after["RIP"] = Stepped(trap.before, trap.insn)["RIP"]

\* C16: a fault at an address in a registered window does not repeat for
\* ever: when the handler has returned without moving the program
\* counter, a later run of it moves the program counter or ends the
\* process.
C16_NoEndlessRefault == Refaulting ~> ~Refaulting

----------------------------------------------------------------------------
(* Properties of interrupt delivery *)

\* the step in which the kernel delivers the pending SIGUSR1
DispatchStep == sigusr1.pending /\ ~sigusr1'.pending

\* C17: after register_interrupt_handler(0x42, h), when a model has
\* written "device_id,0x42" to the sidecar file and sent the signal, the
\* delivery of the signal calls h exactly once, with the device id and
\* the interrupt id 0x42.
C17_RoundTrip ==
    [][(/\ DispatchStep
        /\ call.op = "register_interrupt_handler"
        /\ call.args[1] = \h42
        /\ call.args[2] # NULL
        /\ sidecar # <<>>
        /\ sidecar[2] = \h42)
       => dispatch'.calls = <<Invocation(call.args[2], sidecar)>>]_vars

RegisterStep ==
    /\ call'.op = "register_interrupt_handler"
    /\ <<call, interrupt_handlers>>' # <<call, interrupt_handlers>>

C20_InterruptAfterAck ==
    (dispatch.by = "signal" /\ dispatch.calls # <<>>) => ~dispatch.unacked

\* the lifecycle and the registry of the interface layer around a table
\* of interrupt handlers
MaxMapsLife == 1

LifeInit ==
    /\ Cardinality(open_fds) < MaxFds
    /\ interface_layer_init("ok", TRUE)
    /\ UNCHANGED <<trap, interrupts, driver>>

LifeRegister ==
    /\ mmap_count < MaxMapsLife
    /\ register_device(1, UART_BASE_ADDR, UART_SIZE, TRUE)
    /\ UNCHANGED <<trap, interrupts, driver>>

LifeUnregister ==
    /\ \E id \in DeviceIds : unregister_device(id)
    /\ UNCHANGED <<trap, interrupts, driver>>

NextLife ==
    \/ LifeInit
    \/ InterfaceLayerDeinit
    \/ LifeRegister
    \/ LifeUnregister
    \/ RegisterInterruptHandler
    \/ TriggerInterrupt

SpecLife == Init /\ [][NextLife]_vars

----------------------------------------------------------------------------
(* The UART driver (src/driver_layer/uart_driver.c) on top of the register
   calls of the interface layer *)

UART_OK == 0
UART_ERROR == 1
UART_BUSY == 3

UART_CTRL_ADDR == U32(\h4000, 0)
UART_STATUS_ADDR == U32(\h4000, 4)
UART_DATA_ADDR == U32(\h4000, 8)
UART_BAUD_ADDR == U32(\h4000, 12)

UART_CTRL_ENABLE_Msk == 1
UART_CTRL_TX_EN_Msk == 2
UART_CTRL_RX_EN_Msk == 4
UART_STATUS_READY_Msk == 1
UART_STATUS_TX_EMPTY_Msk == 2

\* the address of uart_interrupt_callback, as a handler value
uart_interrupt_callback == 1

\* a | b and a & b on n bits
RECURSIVE BitOr(_, _, _)
BitOr(a, b, n) ==
    IF n = 0 THEN 0
    ELSE (IF a % 2 = 1 \/ b % 2 = 1 THEN 1 ELSE 0)
         + 2 * BitOr(a \div 2, b \div 2, n - 1)

RECURSIVE BitAnd(_, _, _)
BitAnd(a, b, n) ==
    IF n = 0 THEN 0
    ELSE (IF a % 2 = 1 /\ b % 2 = 1 THEN 1 ELSE 0)
         + 2 * BitAnd(a \div 2, b \div 2, n - 1)

\* v | mask, v & mask and v & ~mask for a mask below 2^16
OrMask(v, mask) == U32(v[1], BitOr(v[2], mask, 16))
AndMask(v, mask) == BitAnd(v[2], mask, 16)
ClearMask(v, mask) == U32(v[1], v[2] - BitAnd(v[2], mask, 16))

\* UART_REG_READ(addr): read_register(addr, 4) on the registry devs
UART_REG_READ(devs, addr, fds, env) ==
    ReadScan(devs, 1, addr, 4, 0, env, fds, NoExchange)

\* UART_REG_WRITE(addr, value): write_register(addr, value, 4) on devs
UART_REG_WRITE(devs, addr, value, fds, env) ==
    LET i == Lookup(devs, addr)
    IN  IF i = 0 THEN [ret |-> -1, xfer |-> NoExchange, fds |-> fds]
        ELSE The({[ret |-> r.ret,
                   xfer |-> Exchange(WriteMessage(devs[i], addr, value, 4),
                                     TRUE, env, fds, r),
                   fds |-> r.fds] :
                  r \in {SendMessageToModel(WriteMessage(devs[i], addr, value, 4),
                                            TRUE, ZeroFrame, fds, env)}})

\* the four register writes that end uart_init; what the last one left
InitWrites(devs, fds, env) ==
    LET w1 == UART_REG_WRITE(devs, UART_CTRL_ADDR, ZERO32, fds, env)
        w2 == UART_REG_WRITE(devs, UART_STATUS_ADDR, ZERO32, w1.fds, env)
        w3 == UART_REG_WRITE(devs, UART_DATA_ADDR, ZERO32, w2.fds, env)
    IN  UART_REG_WRITE(devs, UART_BAUD_ADDR, U32(0, 9600), w3.fds, env)

uart_init(mmap_ok, env) ==
    IF uart_initialized # 0
    THEN /\ call' = [op |-> "uart_init", args |-> <<>>, ret |-> UART_OK]
         /\ xfer' = NoExchange
         /\ UNCHANGED <<registry, lifecycle, interrupts, driver>>
    ELSE IF RegistryFull(devices) \/ ~MmapSucceeds(UART_SIZE, mmap_ok)
    THEN /\ call' = [op |-> "uart_init", args |-> <<>>, ret |-> UART_ERROR]
         /\ xfer' = NoExchange
         /\ UNCHANGED <<registry, lifecycle, interrupts, driver>>
    ELSE LET devs == Append(devices,
                            Entry(1, UART_BASE_ADDR, UART_SIZE, mmap_count + 1))
             w == InitWrites(devs, open_fds, env)
         IN  /\ mmap_count' = mmap_count + 1
             /\ munmaps' = [h \in 1..(mmap_count + 1) |->
                               IF h <= mmap_count THEN munmaps[h] ELSE 0]
             /\ devices' = devs
             /\ interrupt_handlers' =
                    [interrupt_handlers EXCEPT ![1] = uart_interrupt_callback]
             /\ xfer' = w.xfer
             /\ open_fds' = w.fds
             /\ uart_initialized' = 1
             /\ call' = [op |-> "uart_init", args |-> <<>>, ret |-> UART_OK]
             /\ UNCHANGED <<sig_handlers, pid_file, socket_path, server_socket,
                            pending, sidecar, sigusr1, wire, dispatch>>

uart_deinit(env) ==
    IF uart_initialized = 0
    THEN /\ call' = [op |-> "uart_deinit", args |-> <<>>, ret |-> UART_OK]
         /\ xfer' = NoExchange
         /\ UNCHANGED <<registry, lifecycle, interrupts, driver>>
    ELSE LET r == UART_REG_READ(devices, UART_CTRL_ADDR, open_fds, env)
             w == UART_REG_WRITE(devices, UART_CTRL_ADDR,
                                 ClearMask(r.ret, UART_CTRL_ENABLE_Msk),
                                 r.fds, env)
             i == FindId(devices, 1)
         IN  /\ munmaps' = IF i # 0 THEN Munmap(munmaps, devices[i]) ELSE munmaps
             /\ devices' = IF i # 0 THEN RemoveAt(devices, i) ELSE devices
             /\ xfer' = w.xfer
             /\ open_fds' = w.fds
             /\ uart_initialized' = 0
             /\ call' = [op |-> "uart_deinit", args |-> <<>>, ret |-> UART_OK]
             /\ UNCHANGED <<mmap_count, sig_handlers, pid_file, socket_path,
                            server_socket, pending, interrupts>>

uart_enable(env) ==
    IF uart_initialized = 0
    THEN /\ call' = [op |-> "uart_enable", args |-> <<>>, ret |-> UART_ERROR]
         /\ xfer' = NoExchange
         /\ UNCHANGED <<registry, lifecycle, interrupts, driver>>
    ELSE LET r == UART_REG_READ(devices, UART_CTRL_ADDR, open_fds, env)
             ctrl == OrMask(r.ret, UART_CTRL_ENABLE_Msk + UART_CTRL_TX_EN_Msk
                                   + UART_CTRL_RX_EN_Msk)
             w == UART_REG_WRITE(devices, UART_CTRL_ADDR, ctrl, r.fds, env)
         IN  /\ xfer' = w.xfer
             /\ open_fds' = w.fds
             /\ call' = [op |-> "uart_enable", args |-> <<>>, ret |-> UART_OK]
             /\ UNCHANGED <<registry, sig_handlers, pid_file, socket_path,
                            server_socket, pending, interrupts, driver>>

\* the body of uart_transmit once uart_initialized is known to be set:
\* the status it returns, the last exchange it made and the descriptors
Transmit(devs, data, fds, env) ==
    LET r == UART_REG_READ(devs, UART_STATUS_ADDR, fds, env)
    IN  IF AndMask(r.ret, UART_STATUS_READY_Msk) = 0
        THEN [ret |-> UART_ERROR, xfer |-> r.xfer, fds |-> r.fds]
        ELSE IF AndMask(r.ret, UART_STATUS_TX_EMPTY_Msk) = 0
        THEN [ret |-> UART_BUSY, xfer |-> r.xfer, fds |-> r.fds]
        ELSE LET w == UART_REG_WRITE(devs, UART_DATA_ADDR, U32(0, data),
                                     r.fds, env)
             IN  [ret |-> UART_OK, xfer |-> w.xfer, fds |-> w.fds]

uart_transmit(data, env) ==
    IF uart_initialized = 0
    THEN /\ call' = [op |-> "uart_transmit", args |-> <<data>>,
                     ret |-> UART_ERROR]
         /\ xfer' = NoExchange
         /\ UNCHANGED <<registry, lifecycle, interrupts, driver>>
    ELSE LET t == Transmit(devices, data, open_fds, env)
         IN  /\ xfer' = t.xfer
             /\ open_fds' = t.fds
             /\ call' = [op |-> "uart_transmit", args |-> <<data>>,
                         ret |-> t.ret]
             /\ UNCHANGED <<registry, sig_handlers, pid_file, socket_path,
                            server_socket, pending, interrupts, driver>>

\* while (*str): transmit str[i], leave at the first status other than OK
RECURSIVE TransmitFrom(_, _, _, _, _, _)
TransmitFrom(devs, str, i, fds, env, last) ==
    IF i > Len(str) THEN [ret |-> UART_OK, xfer |-> last, fds |-> fds]
    ELSE LET t == Transmit(devs, str[i], fds, env)
         IN  IF t.ret # UART_OK THEN t
             ELSE TransmitFrom(devs, str, i + 1, t.fds, env, t.xfer)

\* str.text is the text before the terminating NUL; str.null is (str == NULL)
uart_transmit_string(str, env) ==
    IF uart_initialized = 0 \/ str.null
    THEN /\ call' = [op |-> "uart_transmit_string", args |-> <<str>>,
                     ret |-> UART_ERROR]
         /\ xfer' = NoExchange
         /\ UNCHANGED <<registry, lifecycle, interrupts, driver>>
    ELSE LET t == TransmitFrom(devices, str.text, 1, open_fds, env, NoExchange)
         IN  /\ xfer' = t.xfer
             /\ open_fds' = t.fds
             /\ call' = [op |-> "uart_transmit_string", args |-> <<str>>,
                         ret |-> t.ret]
             /\ UNCHANGED <<registry, sig_handlers, pid_file, socket_path,
                            server_socket, pending, interrupts, driver>>

\* most mappings a run of the UART driver makes
MaxMapsUart == 2

\* the responders a UART call meets: none reachable, none attached
\* (fallback), and a model whose STATUS has READY and TX_EMPTY set
UartEnvs ==
    {SocketFails,
     [SocketFails EXCEPT !.socket_ok = TRUE],
     [socket_ok |-> TRUE, connect_ok |-> TRUE, sent |-> FRAME_SIZE,
      received |-> FRAME_SIZE,
      reply |-> [value |-> U32(0, 3), result |-> RESULT_SUCCESS]]}

UartBytes == {72, 105}

UartStrings ==
    {[null |-> TRUE, text |-> <<>>]}
    \cup {[null |-> FALSE, text |-> t] : t \in {<<>>, <<72>>, <<72, 105>>}}

UartInit ==
    /\ mmap_count < MaxMapsUart
    /\ \E ok \in BOOLEAN, env \in UartEnvs : uart_init(ok, env)
    /\ UNCHANGED trap

UartDeinit == (\E env \in UartEnvs : uart_deinit(env)) /\ UNCHANGED trap

UartEnable == (\E env \in UartEnvs : uart_enable(env)) /\ UNCHANGED trap

UartTransmit ==
    /\ \E data \in UartBytes, env \in UartEnvs : uart_transmit(data, env)
    /\ UNCHANGED trap

UartTransmitString ==
    /\ \E str \in UartStrings, env \in UartEnvs : uart_transmit_string(str, env)
    /\ UNCHANGED trap

\* the UART driver over the interface layer, as tests/test_uart_integration.c
\* drives it
NextUart ==
    \/ InterfaceLayerInit
    \/ InterfaceLayerDeinit
    \/ UartInit
    \/ UartDeinit
    \/ UartEnable
    \/ UartTransmit
    \/ UartTransmitString

SpecUart == Init /\ [][NextUart]_vars

----------------------------------------------------------------------------
(* Properties of the error paths and the lifecycle *)

\* the last call got a frame from a model whose result is not SUCCESS
ModelError ==
    /\ xfer.path = "model"
    /\ xfer.has_response
    /\ xfer.response.result # RESULT_SUCCESS

\* C21: when the response frame of a model has a nonzero result, the
\* caller is told: write_register returns a value other than 0, and
\* read_register returns its failure value 0, not the data of the frame.
C21_ModelErrorReturned ==
    ModelError =>
        /\ call.op = "write_register" => call.ret # 0
        /\ call.op = "read_register" => call.ret = ZERO32

\* C22: after interface_layer_deinit nothing that interface_layer_init
\* installed is left: neither signal handler is installed, the ingress
\* socket is closed, its path is removed, and the PID file is deleted.
C22_DeinitRemovesInit ==
    call.op = "interface_layer_deinit" =>
        /\ ~sig_handlers.segv
        /\ ~sig_handlers.usr1
        /\ server_socket \notin open_fds
        /\ ~socket_path
        /\ ~pid_file

\* C23: with no model attached, after interface_layer_init, uart_init and
\* uart_enable have succeeded, uart_transmit of any byte and
\* uart_transmit_string of any non-empty string return UART_OK.
C23_TransmitOkOnFallback ==
    [][(/\ sig_handlers.segv /\ sig_handlers.usr1
        /\ uart_initialized = 1
        /\ call.op = "uart_enable" /\ call.ret = UART_OK
        /\ call'.op \in {"uart_transmit", "uart_transmit_string"}
        /\ (call'.op = "uart_transmit_string" =>
               ~call'.args[1].null /\ call'.args[1].text # <<>>)
        /\ xfer'.path = "fallback")
       => call'.ret = UART_OK]_vars

\* the live entries whose host reservation the address is in
HostOwners(a) ==
    {i \in Live :
        /\ Ge64(a, HostAddress(devices[i].mapped_memory))
        /\ Lt64(a, Add64(HostAddress(devices[i].mapped_memory),
                         Widen(devices[i].size)))}

\* C24: a load or store at an address inside the host reservation of a
\* registered device is serviced as one request to that device at
\* base_address + (address - reservation), and the handler returns with
\* the program counter past the instruction instead of ending the process.
C24_HostReservationAccess ==
    (/\ Trapped
     /\ TrapCategory \in {"LOAD", "STORE_REG", "STORE_IMM"}
     /\ HostOwners(trap.fault_addr) # {})
    => /\ trap.outcome = "return"
       /\ Len(trap.requests) = 1
       /\ \E i \in HostOwners(trap.fault_addr) :
              /\ trap.requests[1].request.device_id = devices[i].device_id
              /\ Add64(HostAddress(devices[i].mapped_memory),
                       Widen(trap.requests[1].request.address))
                     = Add64(trap.fault_addr, Widen(devices[i].base_address))
       /\ trap.after["RIP"] = Stepped(trap.before, trap.insn)["RIP"]

\* C25: the slots of the interrupt-handler table last as long as the
\* process: unregister_device, interface_layer_deinit, a later
\* interface_layer_init and the call of a handler leave every slot as it
\* is -- only register_interrupt_handler writes the table -- and the
\* handler called for an id is the one the table holds for it.
C25_HandlersPersist ==
    [][/\ call'.op # "register_interrupt_handler"
           => interrupt_handlers' = interrupt_handlers
       /\ (call'.op = "trigger_interrupt" /\ call'.ret = 0)
           => dispatch'.calls =
                  <<Invocation(interrupt_handlers[call'.args[1]], call'.args)>>
      ]_vars

\* a handler is called after a device was registered and unmapped again
\* and interface_layer_deinit has removed the PID file
C25_Witness ==
    /\ call.op = "trigger_interrupt"
    /\ call.ret = 0
    /\ dispatch.calls[1].handler = interrupt_handlers[call.args[1]]
    /\ devices = <<>>
    /\ mmap_count > 0
    /\ sig_handlers.usr1
    /\ ~pid_file

\* the k-th request of the handler run failed: the transport did, or the
\* response carried a result other than SUCCESS
RequestFailed(k) ==
    \/ trap.requests[k].ret # 0
    \/ trap.requests[k].response.result # RESULT_SUCCESS

\* C26: when a request of a REP STOS fails, in transport or by its
\* result, it is the last request the handler sends, and the saved count
\* and destination stand for the writes completed before it: the count is
\* C - completed and the destination D + completed * s.
C26_PartialRepStos ==
    (/\ Trapped
     /\ TrapCategory = "REP_STOS"
     /\ \E k \in 1..Len(trap.requests) : RequestFailed(k))
    => LET completed == Len(trap.requests) - 1
           s == SpecDecode(trap.insn).operand_size
       IN  /\ \A k \in 1..completed : ~RequestFailed(k)
           /\ trap.after["RCX"] = Sub64(trap.before["RCX"], Small64(completed))
           /\ trap.after["RDI"] =
                  Add64(trap.before["RDI"], Small64(completed * s))

\* the opcode byte of an instruction: the first byte behind the legacy
\* prefixes and the REX prefix
MainOpcode(insn) ==
    LET p == SkipWhile(insn, 1, LegacyPrefixes)
    IN  Byte(insn, IF IsRex(Byte(insn, p)) THEN p + 1 ELSE p)

\* C27: a trapped 8B load, 89 store or F3 AB string store is handled as
\* an access of its own category whose requests carry the operand size of
\* the size rule: 2 with a 66H prefix, 8 with REX.W, 4 otherwise.
C27_OperandSizeRule ==
    (/\ Trapped
     /\ MainOpcode(trap.insn) \in {\h8B, \h89, \hAB}
     /\ TrapCategory # "UNKNOWN"
     /\ Owners(TrapTarget) # {})
    => /\ trap.outcome = "return"
       /\ TrapCategory # "REP_STOS" => Len(trap.requests) = 1
       /\ \A k \in 1..Len(trap.requests) :
              /\ trap.requests[k].request.length =
                     SpecDecode(trap.insn).operand_size
              /\ trap.requests[k].request.command =
                     IF TrapCategory = "LOAD" THEN CMD_READ ELSE CMD_WRITE

\* C28: for every trapped instruction of the supported opcode set,
\* whatever its prefixes, ModR/M form, SIB byte and displacement,
\* get_instruction_length returns the number of bytes the instruction has.
C28_TrueInstructionLength ==
    (Trapped /\ TrapCategory # "UNKNOWN")
    => get_instruction_length(trap.insn) = Len(trap.insn)

\* the one request of a trapped load was answered with SUCCESS
ReadSucceeded ==
    /\ Trapped
    /\ TrapCategory = "LOAD"
    /\ trap.outcome = "return"
    /\ Len(trap.requests) = 1
    /\ trap.requests[1].ret = 0
    /\ trap.requests[1].response.result = RESULT_SUCCESS

\* the reg field of the ModR/M byte of an instruction
RegField(insn) ==
    LET p == SkipWhile(insn, 1, LegacyPrefixes)
        o == IF IsRex(Byte(insn, p)) THEN p + 1 ELSE p
    IN  (Byte(insn, IF Byte(insn, o) = \h0F THEN o + 2 ELSE o + 1) \div 8) % 8

\* an 8-bit load without a REX prefix whose reg field is 4..7: the
\* destination is AH, CH, DH or BH
HighByteForm(insn) ==
    /\ MainOpcode(insn) = \h8A
    /\ ~IsRex(Byte(insn, SkipWhile(insn, 1, LegacyPrefixes)))
    /\ RegField(insn) >= 4

\* the 64-bit register that holds the destination a load names
NamedRegister(insn) ==
    IF HighByteForm(insn) THEN RegOfField[RegField(insn) - 4 + 1]
    ELSE SpecDecode(insn).reg

\* bits 8..15 of a 64-bit value
HighByte(v) == (v[4] \div 256) % 256

\* C29: a successful load changes, besides the program counter, only the
\* register its ModR/M reg field names, extended by REX.R; for an 8-bit
\* load without REX and reg field 4..7 that is AH, CH, DH or BH: bits
\* 8..15 of RAX, RCX, RDX or RBX take the byte read and nothing else of
\* the register file changes.
C29_NamedRegisterUpdated ==
    ReadSucceeded
    => /\ \A r \in Regs \ {"RIP", NamedRegister(trap.insn)} :
              trap.after[r] = trap.before[r]
       /\ HighByteForm(trap.insn)
              => LET r == NamedRegister(trap.insn)
                 IN  /\ HighByte(trap.after[r]) =
                            Byte(trap.requests[1].response.data, 1)
                     /\ trap.after[r] =
                            [trap.before[r] EXCEPT
                                ![4] = (@ % 256) + 256 * HighByte(trap.after[r])]

\* x86-64 writeback of an n-byte value into a 64-bit register
X86Writeback(old, value, n) ==
    IF n = 1 THEN U64(old[1], old[2], old[3],
                      (old[4] \div 256) * 256 + (value[4] % 256))
    ELSE IF n = 2 THEN U64(old[1], old[2], old[3], value[4])
    ELSE IF n = 4 THEN U64(0, 0, value[3], value[4])
    ELSE value

\* C30: a successful READ for a mov load of operand size n changes, of the
\* general registers, only the destination, which takes the first n bytes
\* of the response data with x86-64 writeback: n = 1 replaces the low 8
\* bits and n = 2 the low 16 bits, the other bits kept; n = 4 replaces the
\* low 32 bits and zeroes the high 32; n = 8 replaces all 64 bits.
C30_WritebackBySize ==
    (/\ ReadSucceeded
     /\ MainOpcode(trap.insn) \in {\h8A, \h8B}
     /\ ~HighByteForm(trap.insn))
    => LET n == SpecDecode(trap.insn).operand_size
           d == NamedRegister(trap.insn)
       IN  /\ \A r \in Regs \ {"RIP", d} : trap.after[r] = trap.before[r]
           /\ trap.after[d] =
                  X86Writeback(trap.before[d],
                               Load64(trap.requests[1].response.data, n), n)

\* the second opcode byte of a 0F-prefixed instruction, 0 for any other
SecondOpcode(insn) ==
    LET p == SkipWhile(insn, 1, LegacyPrefixes)
        o == IF IsRex(Byte(insn, p)) THEN p + 1 ELSE p
    IN  IF Byte(insn, o) = \h0F THEN Byte(insn, o + 1) ELSE 0

\* the low 32 bits, as <<high half, low half>>, of the 1- or 2-byte value
\* v zero-extended (signed = FALSE) or sign-extended to 32 bits
Extend32(v, n, signed) ==
    IF n = 1
    THEN (IF signed /\ v >= 128 THEN <<65535, 65280 + v>> ELSE <<0, v>>)
    ELSE (IF signed /\ v >= 32768 THEN <<65535, v>> ELSE <<0, v>>)

\* C31: a successful movzx or movsx load (0F B6, B7, BE, BF) leaves in
\* the low 32 bits of its destination the 1- or 2-byte value read,
\* zero-extended for B6/B7 and sign-extended for BE/BF; the bits above
\* the loaded width do not keep their previous value.
C31_ExtendingLoads ==
    (ReadSucceeded /\ SecondOpcode(trap.insn) \in {\hB6, \hB7, \hBE, \hBF})
    => LET n == IF SecondOpcode(trap.insn) \in {\hB6, \hBE} THEN 1 ELSE 2
           v == Load64(trap.requests[1].response.data, n)[4]
           d == trap.after[NamedRegister(trap.insn)]
       IN  <<d[3], d[4]>> =
               Extend32(v, n, SecondOpcode(trap.insn) \in {\hBE, \hBF})

\* C32: the WRITE request of a trapped register store (88 /r, 89 /r)
\* carries the low operand-size bytes of the register its ModR/M reg
\* field names, extended by REX.R, whichever register that is.
C32_StoreSourceRegister ==
    (/\ Trapped
     /\ TrapCategory = "STORE_REG"
     /\ Len(trap.requests) = 1)
    => trap.requests[1].request.data =
           Memcpy(ZeroData, Bytes64(trap.before[SpecDecode(trap.insn).reg]),
                  SpecDecode(trap.insn).operand_size)

\* the entries of a registry, as a set
EntriesOf(devs) == {devs[k] : k \in 1..Len(devs)}

\* the entry an address resolves to, NULL for none
Resolved(devs, a) == IF Lookup(devs, a) = 0 THEN NULL ELSE devs[Lookup(devs, a)]

\* C33: a successful unregister_device(id) removes one entry with that
\* id and keeps every other live entry with its id, window and
\* reservation, and every address that resolved to another entry
\* resolves to the same entry afterwards.
C33_UnregisterKeepsOthers ==
    [][(/\ call'.op = "unregister_device"
        /\ call'.ret = 0
        /\ Len(devices') = Len(devices) - 1)
       => LET i == FindId(devices, call'.args[1])
          IN  /\ i # 0
              /\ EntriesOf(devices') = EntriesOf(devices) \ {devices[i]}
              /\ \A a \in Addresses :
                     Lookup(devices, a) \notin {0, i}
                         => Resolved(devices', a) = Resolved(devices, a)
      ]_vars

\* C34: every socket send_message_to_model opens is closed when it
\* returns, on every path: a call that makes requests leaves the
\* descriptor table as it found it, and no exchange leaves its socket
\* open.
C34_NoDescriptorLeak ==
    [][call'.op \in {"send_message_to_model", "read_register", "write_register"}
       => /\ open_fds' = open_fds
          /\ ~xfer'.sock_open]_vars

\* a request answered by a model, its socket closed again
C34_Witness ==
    /\ call.op \in {"read_register", "write_register"}
    /\ xfer.path = "model"
    /\ xfer.ret = 0
    /\ ~xfer.sock_open
    /\ open_fds = {}

\* C35: for every 64-bit count and destination in the saved registers,
\* those whose count * size wraps included, every WRITE the handler emits
\* for a REP STOS has its address inside the window of the matched
\* device, and the number of writes is at most the window size divided
\* by the element size (for a loop longer than MaxStores: the number of
\* iterations it was set to make).
C35_RepStosStaysInWindow ==
    (/\ Trapped
     /\ RepStos(trap.insn).is_rep_stos
     /\ FaultLookup(devices, trap.before["RDI"]) # 0)
    => LET e == devices[FaultLookup(devices, trap.before["RDI"])]
           s == RepStos(trap.insn).stos_size
           n == StosCount(trap.before["RCX"], trap.before["RDI"], e, s)
       IN  /\ ~Lt64(DivSmall64(Widen(e.size), s), Small64(Len(trap.requests)))
           /\ trap.runaway => ~Lt64(DivSmall64(Widen(e.size), s), n)
           /\ \A k \in 1..Len(trap.requests) :
                  /\ trap.requests[k].request.command = CMD_WRITE
                  /\ Contains(e.base_address, e.size,
                              trap.requests[k].request.address)

\* C36: the signal handler calls a handler only when the interrupt id it
\* read from the sidecar file is below MAX_IRQS and the slot of that id
\* holds a handler; for any other content of the file it calls nothing,
\* reads nothing outside the table and calls through no empty slot.
C36_DispatchChecksSlot ==
    [][(DispatchStep /\ sidecar # <<>>)
       => IF sidecar[2] < MAX_IRQS /\ interrupt_handlers[sidecar[2]] # NULL
          THEN /\ Len(dispatch'.calls) = 1
               /\ dispatch'.calls[1].handler = interrupt_handlers[sidecar[2]]
               /\ ~dispatch'.crashed
          ELSE /\ dispatch'.calls = <<>>
               /\ ~dispatch'.crashed]_vars

\* the step in which a model raises an interrupt with a sidecar content
\* other than the one in the file
RaiseStep == sidecar' # <<>> /\ sidecar' # sidecar

\* C37: no interrupt is lost or duplicated: every raise (sidecar write,
\* then signal) gets a delivery of its own, also when it follows another
\* raise whose signal has not been handled yet, and each delivery calls
\* the handler registered for the raised id once, with the (device_id,
\* interrupt_id) of the raise.
C37_NoInterruptLost ==
    [][/\ RaiseStep => ~sigusr1.pending
       /\ (/\ DispatchStep
           /\ sidecar # <<>>
           /\ sidecar[2] < MAX_IRQS
           /\ interrupt_handlers[sidecar[2]] # NULL)
          => dispatch'.calls =
                 <<Invocation(interrupt_handlers[sidecar[2]], sidecar)>>]_vars

\* C38: when a model is reachable and replies with one complete response
\* frame, send_message_to_model returns that frame, never the answer of
\* the fallback, under every interleaving, a signal delivered during
\* connect, send or recv included: a request that has been sent leaves
\* recv only with the response frame of the model.
C38_ReplyNotReplaced ==
    [][(wire.driver = "recv" /\ wire'.driver = "idle") => wire.reply]_vars

\* a call of interface_layer_deinit
DeinitStep == call'.op = "interface_layer_deinit"

\* C39: over any sequence of interface_layer_init and
\* interface_layer_deinit calls, failed inits and repeated deinits
\* included, each ingress socket init creates is closed exactly once:
\* deinit never closes a descriptor that is closed already, and after
\* deinit no ingress socket is left open.
C39_IngressClosedOnce ==
    [][DeinitStep
       => /\ server_socket # -1 => server_socket \in open_fds
          /\ open_fds' = {}]_vars

\* C40: over any sequence of interface_layer_init, interface_layer_deinit,
\* uart_init and uart_deinit calls, the initialized flag of the driver is
\* set only while device 1 is a live registry entry, so whenever
\* uart_init has returned OK the register window of the driver resolves
\* to a registered device.
C40_InitializedMeansRegistered ==
    /\ uart_initialized # 0
           => FindId(devices, 1) # 0 /\ Lookup(devices, UART_CTRL_ADDR) # 0
    /\ (call.op = "uart_init" /\ call.ret = UART_OK)
           => Lookup(devices, UART_CTRL_ADDR) # 0

====
